---- MODULE Spec2Model ----
(***************************************************************************)
(* Model of the swarm workflow enforcement tools (src/swarm): the phase    *)
(* and role registry, the state document, the transition engine, the lane  *)
(* switcher and the migrator, and the steps by which the writers replace   *)
(* the state file.                                                         *)
(*                                                                         *)
(* Conventions of the encoding of JSON values:                             *)
(*   - a string field that is null or absent holds Null;                   *)
(*   - a list field that may be absent is a set holding at most one        *)
(*     sequence ({} = absent, {s} = the list s);                           *)
(*   - a timestamp is a number of clock ticks, 0 standing for null;        *)
(*   - a history entry is a record; kind = "str" is a bare legacy string,  *)
(*     kind = "obj" an object; a key that an object does not carry holds   *)
(*     Absent;                                                             *)
(*   - evidence is <<>> (null) or <<path, sha256>>;                        *)
(*   - the content of a file is a sequence of documents: <<>> is a file of *)
(*     zero bytes, <<d>> the rendering of document d.                      *)
(***************************************************************************)
EXTENDS Naturals, Sequences, FiniteSets, TLC

VARIABLES
  state_file,   \* content of swarm_state.json
  bak_file,     \* swarm_state.json.bak: <<>> when there is none, else <<content>>
  now,          \* the UTC clock, in ticks (second resolution)
  writes,       \* how many times the state file was replaced
  last,         \* the last finished tool run: its arguments, exit code and the content it found
  pc,           \* per writer process: the step it is at
  proc,         \* per writer process: its arguments and local variables
  lock_holder,  \* set of processes holding the flock on the state file
  serial,       \* the document obtained by running the writers one at a time in lock order
  observed,     \* what the last lock-free reader loaded
  ledger,       \* content of tasks/logs/CI_LOGS.md
  evidence_dir, \* the raw blobs of tasks/evidence/test-runs: pairs <<file name, content>>
  orch,         \* the last run of the command runner or of the orchestrator
  gate          \* the CI-gate waiter and the pull request it polls

vars == <<state_file, bak_file, writes, now, last, pc, proc, lock_holder, serial, observed,
          ledger, evidence_dir, orch, gate>>

Null == "<null>"
Absent == "<absent>"

----------------------------------------------------------------------------
(* Bounds of the model *)

MaxCaptures == 2   \* runs of the capturer, the command runner or the orchestrator
MaxClock == 3      \* the last second of the clock
MaxPushes == 2     \* pushes to the pull request while the waiter polls
MaxHistory == 7      \* the engine runs alone while history is shorter than this
MaxWrites == 2       \* with every tool at hand, the state file is replaced at most this often
NumProcs == 2        \* concurrent writer processes
MaxLegacy == 3       \* entries of a legacy history handed to the migrator
MaxAccepted == 2     \* entries of the history of a document written by hand

----------------------------------------------------------------------------
(* Sequence helpers *)

Range(s) == {s[i] : i \in 1..Len(s)}

\* list.index(x): position of the first occurrence (0 when there is none)
IndexOf(s, x) ==
  IF x \in Range(s) THEN CHOOSE i \in 1..Len(s) : s[i] = x /\ \A j \in 1..(i - 1) : s[j] # x
  ELSE 0

IsPrefix(s, t) == Len(s) <= Len(t) /\ \A i \in 1..Len(s) : s[i] = t[i]

\* list.insert(k, x) for a 0-based position k <= len
InsertAt(s, k, x) == SubSeq(s, 1, k) \o <<x>> \o SubSeq(s, k + 1, Len(s))

----------------------------------------------------------------------------
(* Phase & role registry: src/swarm/validate_state.py *)

CANONICAL_PHASES ==
  {"INIT", "ARCHITECT", "QA_CONTRACT", "BACKEND", "ANALYST_CI_GATE",
   "FRONTEND", "QA_E2E", "ANALYST_FINAL", "COMPLETE"}

PHASE_ALIASES ==
  [ARCHITECT_DESIGN |-> "ARCHITECT",
   ARCHITECT_PORT_FIX |-> "ARCHITECT",
   QA_CONTRACT_TESTS |-> "QA_CONTRACT",
   BACKEND_IMPLEMENTATION |-> "BACKEND",
   BACKEND_HARDENING_COMPLETE |-> "BACKEND",
   ANALYST_AUDIT |-> "ANALYST_CI_GATE",
   FRONTEND_IMPLEMENTATION |-> "FRONTEND",
   QA_E2E_VALIDATION |-> "QA_E2E",
   QA_VALIDATION_COMPLETE |-> "QA_E2E",
   ANALYST_FINAL_SIGNOFF |-> "ANALYST_FINAL",
   QA_VALIDATION |-> "QA_E2E"]

\* Mutant: the CI gate is the backend's own phase
PHASE_TO_ROLE_BackendGates ==
  [INIT |-> "orchestrator",
   ARCHITECT |-> "architect",
   QA_CONTRACT |-> "qa",
   BACKEND |-> "backend",
   ANALYST_CI_GATE |-> "backend",
   FRONTEND |-> "frontend",
   QA_E2E |-> "qa",
   ANALYST_FINAL |-> "analyst",
   COMPLETE |-> "orchestrator"]

PHASE_TO_ROLE ==
  [INIT |-> "orchestrator",
   ARCHITECT |-> "architect",
   QA_CONTRACT |-> "qa",
   BACKEND |-> "backend",
   ANALYST_CI_GATE |-> "analyst",
   FRONTEND |-> "frontend",
   QA_E2E |-> "qa",
   ANALYST_FINAL |-> "analyst",
   COMPLETE |-> "orchestrator"]

DEFAULT_REQUIRED_PHASE_SEQUENCE ==
  <<"ARCHITECT", "QA_CONTRACT", "BACKEND", "ANALYST_CI_GATE",
    "FRONTEND", "QA_E2E", "ANALYST_FINAL">>

EXECUTION_LANES == {"FULL", "FAST_UI"}

LANE_REQUIRED_PHASE_SEQUENCE ==
  [FULL |-> DEFAULT_REQUIRED_PHASE_SEQUENCE,
   FAST_UI |-> <<"ARCHITECT", "FRONTEND", "QA_E2E", "ANALYST_FINAL">>]

ROLE_ALIASES ==
  [arch |-> "architect", architect |-> "architect", qa |-> "qa",
   backend |-> "backend", dev |-> "backend", developer |-> "backend",
   frontend |-> "frontend", analyst |-> "analyst",
   orchestrator |-> "orchestrator", ci |-> "orchestrator"]

\* The raw strings of the model that are not already stripped upper case,
\* with the value of raw.strip().upper().
StripUpper(raw) ==
  CASE raw = "qa_e2e" -> "QA_E2E"
    [] raw = " Backend " -> "BACKEND"
    [] raw = "   " -> ""
    [] OTHER -> raw

\* raw.strip().lower() over the role strings of the model
StripLower(raw) ==
  CASE raw = " Architect " -> "architect"
    [] raw = "QA" -> "qa"
    [] raw = "DEV" -> "dev"
    [] OTHER -> raw

\* u.startswith(prefix), over the upper-case strings of the model that reach
\* the fallback branches of _canonicalize_phase
StartsWith(u, prefix) ==
  <<u, prefix>> \in
    {<<"ARCHITECT_V2", "ARCHITECT">>,
     <<"BACKEND_V2", "BACKEND">>,
     <<"FRONTEND_POLISH", "FRONTEND">>,
     <<"ANALYST_FINAL_V2", "ANALYST_FINAL">>, <<"ANALYST_FINAL_V2", "ANALYST">>,
     <<"ANALYST_REVIEW_FINAL", "ANALYST">>,
     <<"ANALYST_REVIEW", "ANALYST">>,
     <<"QA", "QA">>, <<"QA_SMOKE", "QA">>,
     <<"QA_CONTRACT_V2", "QA">>, <<"QA_SMOKE_E2E", "QA">>, <<"QA_VALIDATION_V2", "QA">>}

\* sub in u, over the same strings
Contains(u, sub) ==
  <<u, sub>> \in
    {<<"ANALYST_FINAL_V2", "FINAL">>, <<"ANALYST_REVIEW_FINAL", "FINAL">>,
     <<"QA_CONTRACT_V2", "CONTRACT">>,
     <<"QA_SMOKE_E2E", "E2E">>, <<"QA_VALIDATION_V2", "VALIDATION">>}

\* The ValidationError outcomes of _canonicalize_phase
PhaseErrors == {"!empty", "!ambiguous_qa", "!unknown_phase"}

_canonicalize_phase(raw) ==
  LET u == StripUpper(raw) IN
  IF u = "" THEN "!empty"
  ELSE IF u \in CANONICAL_PHASES THEN u
  ELSE IF u \in DOMAIN PHASE_ALIASES THEN PHASE_ALIASES[u]
  ELSE IF StartsWith(u, "ARCHITECT") THEN "ARCHITECT"
  ELSE IF StartsWith(u, "BACKEND") THEN "BACKEND"
  ELSE IF StartsWith(u, "FRONTEND") THEN "FRONTEND"
  ELSE IF StartsWith(u, "ANALYST_FINAL") \/ (StartsWith(u, "ANALYST") /\ Contains(u, "FINAL"))
       THEN "ANALYST_FINAL"
  ELSE IF StartsWith(u, "ANALYST") THEN "ANALYST_CI_GATE"
  ELSE IF StartsWith(u, "QA") THEN
       IF Contains(u, "CONTRACT") THEN "QA_CONTRACT"
       ELSE IF Contains(u, "E2E") \/ Contains(u, "VALIDATION") THEN "QA_E2E"
       ELSE "!ambiguous_qa"
  ELSE "!unknown_phase"

\* The ValidationError outcomes of _normalize_role
RoleErrors == {"!role_required", "!unknown_role"}

_normalize_role(raw) ==
  LET r == StripLower(raw) IN
  IF r = "" THEN "!role_required"
  ELSE IF r \in DOMAIN ROLE_ALIASES THEN ROLE_ALIASES[r]
  ELSE "!unknown_role"

\* raw.strip().upper() over the lane strings of the model
LaneUpper(raw) ==
  CASE raw = "fast_ui" -> "FAST_UI"
    [] raw = " full " -> "FULL"
    [] OTHER -> raw

_normalize_lane(raw) ==
  IF raw = Null THEN "FULL"
  ELSE IF LaneUpper(raw) \in EXECUTION_LANES THEN LaneUpper(raw)
  ELSE "!unknown_lane"

\* _iter_history_phases: the phase strings of the history entries
\* (bare strings, or objects with a string 'phase'); anything else raises
HistoryWellFormed(history) == \A i \in 1..Len(history) : history[i].phase # Null

_iter_history_phases(history) == [i \in 1..Len(history) |-> history[i].phase]

----------------------------------------------------------------------------
(* Transition engine: src/swarm/transition_state.py *)

\* Mutant: the table without the edge that leaves BACKEND
FULL_ALLOWED_TRANSITIONS_BackendStuck ==
  {<<"INIT", "ARCHITECT">>,
   <<"ARCHITECT", "QA_CONTRACT">>,
   <<"QA_CONTRACT", "BACKEND">>,
   <<"ANALYST_CI_GATE", "BACKEND">>,
   <<"ANALYST_CI_GATE", "FRONTEND">>,
   <<"ANALYST_CI_GATE", "ARCHITECT">>,
   <<"FRONTEND", "QA_E2E">>,
   <<"FRONTEND", "ANALYST_CI_GATE">>,
   <<"QA_E2E", "ANALYST_FINAL">>,
   <<"QA_E2E", "ANALYST_CI_GATE">>,
   <<"ANALYST_FINAL", "COMPLETE">>,
   <<"ANALYST_FINAL", "FRONTEND">>,
   <<"ANALYST_FINAL", "BACKEND">>,
   <<"ANALYST_FINAL", "ARCHITECT">>}

FULL_ALLOWED_TRANSITIONS ==
  {<<"INIT", "ARCHITECT">>,
   <<"ARCHITECT", "QA_CONTRACT">>,
   <<"QA_CONTRACT", "BACKEND">>,
   <<"BACKEND", "ANALYST_CI_GATE">>,
   <<"ANALYST_CI_GATE", "BACKEND">>,
   <<"ANALYST_CI_GATE", "FRONTEND">>,
   <<"ANALYST_CI_GATE", "ARCHITECT">>,
   <<"FRONTEND", "QA_E2E">>,
   <<"FRONTEND", "ANALYST_CI_GATE">>,
   <<"QA_E2E", "ANALYST_FINAL">>,
   <<"QA_E2E", "ANALYST_CI_GATE">>,
   <<"ANALYST_FINAL", "COMPLETE">>,
   <<"ANALYST_FINAL", "FRONTEND">>,
   <<"ANALYST_FINAL", "BACKEND">>,
   <<"ANALYST_FINAL", "ARCHITECT">>}

\* Mutant: the FAST_UI table lets the frontend hand over to the backend
FAST_UI_ALLOWED_TRANSITIONS_ToBackend ==
  {<<"INIT", "ARCHITECT">>,
   <<"ARCHITECT", "FRONTEND">>,
   <<"FRONTEND", "QA_E2E">>,
   <<"FRONTEND", "ARCHITECT">>,
   <<"FRONTEND", "BACKEND">>,
   <<"QA_E2E", "ANALYST_FINAL">>,
   <<"QA_E2E", "FRONTEND">>,
   <<"ANALYST_FINAL", "COMPLETE">>,
   <<"ANALYST_FINAL", "FRONTEND">>,
   <<"ANALYST_FINAL", "ARCHITECT">>}

FAST_UI_ALLOWED_TRANSITIONS ==
  {<<"INIT", "ARCHITECT">>,
   <<"ARCHITECT", "FRONTEND">>,
   <<"FRONTEND", "QA_E2E">>,
   <<"FRONTEND", "ARCHITECT">>,
   <<"QA_E2E", "ANALYST_FINAL">>,
   <<"QA_E2E", "FRONTEND">>,
   <<"ANALYST_FINAL", "COMPLETE">>,
   <<"ANALYST_FINAL", "FRONTEND">>,
   <<"ANALYST_FINAL", "ARCHITECT">>}

ALLOWED_TRANSITIONS_BY_LANE ==
  [FULL |-> FULL_ALLOWED_TRANSITIONS, FAST_UI |-> FAST_UI_ALLOWED_TRANSITIONS]

\* The files that exist beside the state file, with the SHA-256 of their bytes
EvidenceFiles == {"ev.log", "README.md"}

_sha256_file(path) ==
  CASE path = "ev.log" -> "e3b0c44298fc1c149afbf4c8996fb92427ae41e4649b934ca495991b7852b855"
    [] path = "README.md" -> "98ea6e4f216f2fb4b69fff9b3a44842c38686ca685f3f55dc48c5d3fb1107be4"
    [] OTHER -> Null

\* Mutant: a present sequence is never compared with the lane default
_ensure_required_sequence_NoCompare(state, lane) ==
  LET lane_default == LANE_REQUIRED_PHASE_SEQUENCE[lane] IN
  IF state.required_phase_sequence # {} THEN
    LET raw == CHOOSE s \in state.required_phase_sequence : TRUE
    IN [err |-> "", seq |-> [i \in 1..Len(raw) |-> _canonicalize_phase(raw[i])], state |-> state]
  ELSE [err |-> "", seq |-> lane_default,
        state |-> [state EXCEPT !.required_phase_sequence = {lane_default}]]

\* _ensure_required_sequence: [err, seq, state], err = "" when it returns
_ensure_required_sequence(state, lane) ==
  LET lane_default == LANE_REQUIRED_PHASE_SEQUENCE[lane] IN
  IF state.required_phase_sequence # {} THEN
    LET raw == CHOOSE s \in state.required_phase_sequence : TRUE
        seq == [i \in 1..Len(raw) |-> _canonicalize_phase(raw[i])]
    IN IF \E i \in 1..Len(seq) : seq[i] \in PhaseErrors
         THEN [err |-> "invalid_phase", seq |-> <<>>, state |-> state]
       ELSE IF seq # lane_default /\ ~state.allow_custom_sequence
         THEN [err |-> "sequence_mismatch", seq |-> <<>>, state |-> state]
       ELSE [err |-> "", seq |-> seq, state |-> state]
  ELSE [err |-> "", seq |-> lane_default,
        state |-> [state EXCEPT !.required_phase_sequence = {lane_default}]]

\* json.loads of the text read from the state file (a file of zero bytes is
\* invalid JSON)
IsJson(text) == Len(text) = 1

\* Mutant: the lock is read from a key the document does not carry
IsLocked_WrongKey(state) == FALSE

\* lines 166-167: state.get("is_locked") is True
IsLocked(state) == state.is_locked

\* Mutant: the orchestrator may complete any phase
RoleMayComplete_OrchestratorToo(role, executing_phase) ==
  role = PHASE_TO_ROLE[executing_phase] \/ role = "orchestrator"

\* lines 169-176: the acting role must own the phase being completed
RoleMayComplete(role, executing_phase) == role = PHASE_TO_ROLE[executing_phase]

\* Mutant: the edge is looked up in the union of the lanes' tables
EdgeAllowed_AnyLane(lane, executing_phase, next_phase) ==
  <<executing_phase, next_phase>> \in FULL_ALLOWED_TRANSITIONS \cup FAST_UI_ALLOWED_TRANSITIONS

\* lines 178-184: the edge must be in the lane's table
EdgeAllowed(lane, executing_phase, next_phase) ==
  <<executing_phase, next_phase>> \in ALLOWED_TRANSITIONS_BY_LANE[lane]

\* Mutant: the prior phases are looked up in the required sequence itself
MissingRequired_WrongSet(required_seq, next_phase, timeline) ==
  LET idx_next == IndexOf(required_seq, next_phase) - 1
      completed == Range(required_seq)
  IN SelectSeq(SubSeq(required_seq, 1, idx_next), LAMBDA p : p \notin completed)

\* Mutant: a phase that is already in the timeline counts as skipped, so no
\* edge leads back
MissingRequired_NoGoingBack(required_seq, next_phase, timeline) ==
  LET idx_next == IndexOf(required_seq, next_phase) - 1
      completed == Range(timeline)
  IN IF next_phase \in completed THEN <<next_phase>>
     ELSE SelectSeq(SubSeq(required_seq, 1, idx_next), LAMBDA p : p \notin completed)

\* Mutant: only the first phase of the required sequence is looked for
MissingRequired_FirstOnly(required_seq, next_phase, timeline) ==
  LET idx_next == IndexOf(required_seq, next_phase) - 1
      completed == Range(timeline)
  IN SelectSeq(SubSeq(required_seq, 1, IF idx_next > 0 THEN 1 ELSE 0), LAMBDA p : p \notin completed)

\* lines 190-194: the required phases before next_phase that are neither in
\* history nor the phase being completed, in sequence order
MissingRequired(required_seq, next_phase, timeline) ==
  LET idx_next == IndexOf(required_seq, next_phase) - 1
      completed == Range(timeline)
  IN SelectSeq(SubSeq(required_seq, 1, idx_next), LAMBDA p : p \notin completed)

\* Mutant: the entry is signed off by the orchestrator instead of the role
NewHistoryEntry_ByOrchestrator(executing_phase, clock, role, lane, note, evidence_obj) ==
  [kind |-> "obj", phase |-> executing_phase, at |-> clock, by_role |-> "orchestrator",
   lane |-> lane, note |-> note, legacy_phase |-> Absent, evidence |-> evidence_obj]

\* lines 215-224: the appended history entry
NewHistoryEntry(executing_phase, clock, role, lane, note, evidence_obj) ==
  [kind |-> "obj", phase |-> executing_phase, at |-> clock, by_role |-> role,
   lane |-> lane, note |-> note, legacy_phase |-> Absent, evidence |-> evidence_obj]

\* Mutant: the new entry is put in front of the history
UpdatedState_Prepends(state, executing_phase, next_phase, entry, clock) ==
  [state EXCEPT !.current_phase = executing_phase,
                !.next_phase = next_phase,
                !.history = <<entry>> \o state.history,
                !.last_updated = clock]

\* The two places of a signature in the document, state_hmac and
\* integrity.hmac: <<>> when the key is absent, <<"">> for an empty string,
\* <<"hmac", key, payload>> for the hex digest of the HMAC-SHA256 of the
\* payload under the key.  integrity is a JSON object (kind "dict") or absent.
NoSignature == <<>>
EmptySignature == <<"">>
NoIntegrity == [kind |-> "absent", hmac |-> NoSignature]
IntegrityWith(signature) == [kind |-> "dict", hmac |-> signature]

\* validate_state.py _compute_state_hmac: the digest of the canonical JSON of
\* the document without state_hmac and without integrity.hmac
_compute_state_hmac(state, key) ==
  <<"hmac", key, [state EXCEPT !.state_hmac = NoSignature,
                               !.integrity = [@ EXCEPT !.hmac = NoSignature]]>>

\* transition_state.py lines 228-231, set_execution_lane.py lines 102-104:
\* with SWARM_STATE_HMAC_KEY set the tool writes the signature to state_hmac
SignState(state, hmac_key) ==
  IF hmac_key # "" THEN [state EXCEPT !.state_hmac = _compute_state_hmac(state, hmac_key)]
  ELSE state

\* Mutant: the history is started afresh with the new entry
UpdatedState_DropsHistory(state, executing_phase, next_phase, entry, clock) ==
  [state EXCEPT !.current_phase = executing_phase,
                !.next_phase = next_phase,
                !.history = <<entry>>,
                !.last_updated = clock]

\* lines 210-226: the document after the transition
UpdatedState(state, executing_phase, next_phase, entry, clock) ==
  [state EXCEPT !.current_phase = executing_phase,
                !.next_phase = next_phase,
                !.history = Append(state.history, entry),
                !.last_updated = clock]

\* A run that raises: exit code 1, nothing rendered
Rejected(err, text) == [rc |-> 1, err |-> err, write |-> FALSE, rendered |-> text]

\* main, lines 151-233: from the text read under the lock to the rendered new
\* document. rc = 1 stands for the ValidationError that ends the process.
TransitionCompute(text, args, clock) ==
  IF ~IsJson(text) THEN Rejected("invalid_json", text) ELSE
  LET state0 == text[1]
      role == _normalize_role(args.role)
  IN
  IF role \in RoleErrors THEN Rejected("unknown_role", text) ELSE
  IF state0.current_phase = Null \/ state0.next_phase = Null
    THEN Rejected("phase_not_string", text) ELSE
  LET executing_phase == _canonicalize_phase(state0.next_phase) IN
  IF executing_phase \in PhaseErrors THEN Rejected("invalid_phase", text) ELSE
  LET next_phase == _canonicalize_phase(args.to) IN
  IF next_phase \in PhaseErrors THEN Rejected("invalid_phase", text) ELSE
  LET lane == _normalize_lane(state0.execution_lane) IN
  IF lane = "!unknown_lane" THEN Rejected("unknown_lane", text) ELSE
  LET state1 == [state0 EXCEPT !.execution_lane = lane] IN
  IF IsLocked(state1) THEN Rejected("locked", text) ELSE
  IF ~RoleMayComplete(role, executing_phase) THEN Rejected("role_mismatch", text) ELSE
  IF ~EdgeAllowed(lane, executing_phase, next_phase)
    THEN Rejected("illegal_transition", text) ELSE
  LET ens == _ensure_required_sequence(state1, lane) IN
  IF ens.err # "" THEN Rejected(ens.err, text) ELSE
  LET required_seq == ens.seq
      state2 == ens.state
      in_seq == next_phase \in Range(required_seq)
      raw_timeline == _iter_history_phases(state2.history)
      timeline == [i \in 1..Len(raw_timeline) |-> _canonicalize_phase(raw_timeline[i])]
                    \o <<executing_phase>>
  IN
  IF in_seq /\ ~HistoryWellFormed(state2.history)
    THEN Rejected("history_malformed", text) ELSE
  IF in_seq /\ \E i \in 1..Len(timeline) : timeline[i] \in PhaseErrors
    THEN Rejected("invalid_phase", text) ELSE
  IF in_seq /\ MissingRequired(required_seq, next_phase, timeline) # <<>>
    THEN Rejected("skip", text) ELSE
  IF args.evidence # "" /\ args.evidence \notin EvidenceFiles
    THEN Rejected("evidence_not_found", text) ELSE
  LET evidence_obj == IF args.evidence # ""
                        THEN <<args.evidence, _sha256_file(args.evidence)>> ELSE <<>>
      entry == NewHistoryEntry(executing_phase, clock, role, lane, args.note, evidence_obj)
  IN [rc |-> 0, err |-> IF args.dry_run THEN "dry_run" ELSE "",
      write |-> ~args.dry_run,
      rendered |-> <<SignState(UpdatedState(state2, executing_phase, next_phase, entry, clock),
                               args.hmac_key)>>]

----------------------------------------------------------------------------
(* Lane switcher: src/swarm/set_execution_lane.py *)

safe_current == {"INIT", "ARCHITECT", "COMPLETE"}
safe_next == {"ARCHITECT", "FRONTEND", "QA_CONTRACT"}

\* Mutant: the boundary check looks at current_phase only
AtLaneBoundary_CurrentOnly(current_phase, next_phase) ==
  current_phase \in safe_current

\* Mutant: the lane may be switched at any point of a run
AtLaneBoundary_Anywhere(current_phase, next_phase) == TRUE

\* lines 87-95: the architecture-boundary check
AtLaneBoundary(current_phase, next_phase) ==
  current_phase \in safe_current /\ next_phase \in safe_next

\* main, lines 70-106: original is the text read through the locked handle,
\* loaded the text that _load_json reads again by path.
SetLaneCompute(original, loaded, args) ==
  IF ~IsJson(loaded) THEN Rejected("invalid_json", original) ELSE
  LET state0 == loaded[1]
      lane == _normalize_lane(args.lane)
      current_lane == _normalize_lane(state0.execution_lane)
  IN
  IF lane = "!unknown_lane" \/ current_lane = "!unknown_lane"
    THEN Rejected("unknown_lane", original) ELSE
  IF lane = current_lane
    THEN [rc |-> 0, err |-> "already", write |-> FALSE, rendered |-> original] ELSE
  IF state0.current_phase = Null \/ state0.next_phase = Null
    THEN Rejected("phase_not_string", original) ELSE
  LET current_phase == _canonicalize_phase(state0.current_phase)
      next_phase == _canonicalize_phase(state0.next_phase)
  IN
  IF current_phase \in PhaseErrors \/ next_phase \in PhaseErrors
    THEN Rejected("invalid_phase", original) ELSE
  IF ~args.force /\ ~AtLaneBoundary(current_phase, next_phase)
    THEN Rejected("not_at_boundary", original) ELSE
  LET state1 == [state0 EXCEPT !.execution_lane = lane,
                               !.required_phase_sequence = {LANE_REQUIRED_PHASE_SEQUENCE[lane]},
                               !.lane_reason = IF args.reason # "" THEN args.reason ELSE @]
  IN [rc |-> 0, err |-> IF args.dry_run THEN "dry_run" ELSE "",
      write |-> ~args.dry_run, rendered |-> <<SignState(state1, args.hmac_key)>>]

----------------------------------------------------------------------------
(* Migrator: src/swarm/migrate_state.py *)

\* _to_history_objects; the note's text names the legacy phase, which the
\* entry also carries in legacy_phase
MigratedEntry(p) ==
  [kind |-> "obj", phase |-> _canonicalize_phase(p), at |-> 0, by_role |-> Null,
   lane |-> Absent, note |-> "migrated from legacy phase", legacy_phase |-> p,
   evidence |-> <<>>]

_to_history_objects(legacy_history) ==
  [i \in 1..Len(legacy_history) |-> MigratedEntry(legacy_history[i])]

InsertedEntry(phase) ==
  [kind |-> "obj", phase |-> phase, at |-> 0, by_role |-> Null,
   lane |-> Absent, note |-> "Inserted by migration", legacy_phase |-> Null,
   evidence |-> <<>>]

\* Mutant: the anchor is the last later required phase that is present
LaterAnchor_Last(phases, required_seq, i) ==
  LET later == {j \in (i + 1)..Len(required_seq) : required_seq[j] \in Range(phases)}
  IN IF later = {} THEN ""
     ELSE required_seq[CHOOSE j \in later : \A k \in later : j >= k]

\* The first phase of required_seq[i+1:] that is in phases ("" when none)
LaterAnchor(phases, required_seq, i) ==
  LET later == {j \in (i + 1)..Len(required_seq) : required_seq[j] \in Range(phases)}
  IN IF later = {} THEN ""
     ELSE required_seq[CHOOSE j \in later : \A k \in later : j <= k]

\* _insert_missing_required_phases, the loop from position i of required_seq on
RECURSIVE InsertMissingFrom(_, _, _)
InsertMissingFrom(history, required_seq, i) ==
  IF i > Len(required_seq) THEN history
  ELSE
    LET phase == required_seq[i]
        phases == [k \in 1..Len(history) |-> history[k].phase]
        anchor == LaterAnchor(phases, required_seq, i)
    IN IF phase \in Range(phases) \/ anchor = ""
         THEN InsertMissingFrom(history, required_seq, i + 1)
       ELSE InsertMissingFrom(
              InsertAt(history, IndexOf(phases, anchor) - 1, InsertedEntry(phase)),
              required_seq, i + 1)

\* Mutant: the missing phase is assigned to the anchor's position instead of
\* inserted before it
RECURSIVE OverwriteMissingFrom(_, _, _)
OverwriteMissingFrom(history, required_seq, i) ==
  IF i > Len(required_seq) THEN history
  ELSE
    LET phase == required_seq[i]
        phases == [k \in 1..Len(history) |-> history[k].phase]
        anchor == LaterAnchor(phases, required_seq, i)
    IN IF phase \in Range(phases) \/ anchor = ""
         THEN OverwriteMissingFrom(history, required_seq, i + 1)
       ELSE OverwriteMissingFrom(
              [history EXCEPT ![IndexOf(phases, anchor)] = InsertedEntry(phase)],
              required_seq, i + 1)

_insert_missing_required_phases_Overwrites(history, required_seq) ==
  OverwriteMissingFrom(history, required_seq, 1)

_insert_missing_required_phases(history, required_seq) ==
  InsertMissingFrom(history, required_seq, 1)

\* main, lines 72-101: the document the migrator writes for the text it loaded
MigrateCompute(text, clock) ==
  IF ~IsJson(text) THEN Rejected("invalid_json", text) ELSE
  LET legacy == text[1] IN
  IF legacy.current_phase = Null \/ legacy.next_phase = Null
    THEN Rejected("phase_not_string", text) ELSE
  IF ~HistoryWellFormed(legacy.history) THEN Rejected("history_malformed", text) ELSE
  LET legacy_history == _iter_history_phases(legacy.history) IN
  IF \E i \in 1..Len(legacy_history) : _canonicalize_phase(legacy_history[i]) \in PhaseErrors
    THEN Rejected("invalid_phase", text) ELSE
  IF _canonicalize_phase(legacy.current_phase) \in PhaseErrors
     \/ _canonicalize_phase(legacy.next_phase) \in PhaseErrors
    THEN Rejected("invalid_phase", text) ELSE
  LET required_seq == DEFAULT_REQUIRED_PHASE_SEQUENCE
      history_objs == _insert_missing_required_phases(
                        _to_history_objects(legacy_history), required_seq)
      migrated == [schema_version |-> "1.0",
                   current_phase |-> _canonicalize_phase(legacy.current_phase),
                   next_phase |-> _canonicalize_phase(legacy.next_phase),
                   execution_lane |-> Null,
                   required_phase_sequence |-> {required_seq},
                   allow_custom_sequence |-> FALSE,
                   is_locked |-> legacy.is_locked,
                   history |-> history_objs,
                   last_updated |-> 0,
                   lane_reason |-> Null,
                   migrated_at |-> clock,
                   state_hmac |-> NoSignature,
                   integrity |-> NoIntegrity]
  IN [rc |-> 0, err |-> "", write |-> TRUE, rendered |-> <<migrated>>]

----------------------------------------------------------------------------
(* State documents the tools start from *)

\* The initial state of a task: nothing done, the architect is next
InitialState(lane, seq, locked) ==
  [schema_version |-> "1.0", current_phase |-> "INIT", next_phase |-> "ARCHITECT",
   execution_lane |-> lane, required_phase_sequence |-> seq,
   allow_custom_sequence |-> FALSE, is_locked |-> locked, history |-> <<>>,
   last_updated |-> 0, lane_reason |-> Null, migrated_at |-> 0,
   state_hmac |-> NoSignature, integrity |-> NoIntegrity]

\* A history entry as the engine writes it
EngineEntry(phase, lane) ==
  NewHistoryEntry(phase, 1, PHASE_TO_ROLE[phase], lane, "", <<>>)

\* A bare string of a legacy history
LegacyEntry(raw) ==
  [kind |-> "str", phase |-> raw, at |-> 0, by_role |-> Absent, lane |-> Absent,
   note |-> Absent, legacy_phase |-> Absent, evidence |-> <<>>]

\* Documents edited by hand or left by older versions of the tools
EditedStates ==
  { \* history [ARCHITECT], next BACKEND: QA_CONTRACT was never run
    [InitialState("FULL", {LANE_REQUIRED_PHASE_SEQUENCE["FULL"]}, FALSE) EXCEPT
       !.current_phase = "ARCHITECT", !.next_phase = "BACKEND",
       !.history = <<EngineEntry("ARCHITECT", "FULL")>>],
    \* a run that is waiting for the final analyst
    [InitialState("FULL", {LANE_REQUIRED_PHASE_SEQUENCE["FULL"]}, FALSE) EXCEPT
       !.current_phase = "QA_E2E", !.next_phase = "ANALYST_FINAL",
       !.history = [i \in 1..6 |-> EngineEntry(DEFAULT_REQUIRED_PHASE_SEQUENCE[i], "FULL")]],
    \* a legacy document: aliases, bare strings in history, no lane, no sequence
    [InitialState(Null, {}, FALSE) EXCEPT
       !.schema_version = Null,
       !.current_phase = "BACKEND_IMPLEMENTATION", !.next_phase = "ANALYST_AUDIT",
       !.history = <<LegacyEntry("ARCHITECT_DESIGN"), LegacyEntry("BACKEND_IMPLEMENTATION")>>],
    \* a custom required sequence, allowed by the flag
    [InitialState("FAST_UI", {<<"ARCHITECT", "FRONTEND">>}, FALSE) EXCEPT
       !.allow_custom_sequence = TRUE],
    \* a required sequence that is not the lane's, without the flag
    InitialState("FAST_UI", {LANE_REQUIRED_PHASE_SEQUENCE["FULL"]}, FALSE),
    \* a lane string the registry does not know
    InitialState("TURBO", {}, FALSE) }

InitialStates ==
  {InitialState(lane, {}, FALSE) : lane \in {Null, "FULL", "fast_ui"}}
  \cup {InitialState("FULL", {}, TRUE)}
  \cup {InitialState(lane, {LANE_REQUIRED_PHASE_SEQUENCE[lane]}, FALSE) : lane \in EXECUTION_LANES}

----------------------------------------------------------------------------
(* Tool runs, one at a time *)

Procs == 1..NumProcs

CanonicalRoles == {ROLE_ALIASES[a] : a \in DOMAIN ROLE_ALIASES}
RoleInputs == {"architect", "qa", "backend", "frontend", "analyst", "orchestrator",
               "DEV", "intern"}
ToInputs == CANONICAL_PHASES \cup {"qa_e2e", "QA"}
NoteInputs == {"plan"}
LaneInputs == {"FULL", "fast_ui", "TURBO"}
\* --reason, and whether the backup can be written
LaneModes == {<<"", TRUE>>, <<"ui only", FALSE>>}

NoArgs ==
  [role |-> Absent, to |-> Absent, evidence |-> Absent, note |-> Absent,
   dry_run |-> FALSE, lane |-> Absent, reason |-> Absent, force |-> FALSE,
   hmac_key |-> ""]

TransitionArgs(role, to, evidence, note, dry_run) ==
  [NoArgs EXCEPT !.role = role, !.to = to, !.evidence = evidence, !.note = note,
                 !.dry_run = dry_run]

LaneArgs(lane, reason, force, dry_run) ==
  [NoArgs EXCEPT !.lane = lane, !.reason = reason, !.force = force, !.dry_run = dry_run]

\* What is kept of a finished run: the tool, its exit code and error, whether
\* it replaced the state file, the arguments of a run that did, and the
\* contents of the state file and of the backup when it started.
Finished(tool, r, args) ==
  [tool |-> tool, rc |-> r.rc, err |-> r.err, wrote |-> r.write,
   args |-> IF r.write THEN args ELSE NoArgs,
   pre |-> state_file, pre_bak |-> bak_file]

\* Mutant: the backup is taken before the run knows whether it will write
BackupContent_Early(r, backup_ok) == IF backup_ok THEN <<state_file>> ELSE bak_file

\* lines 238-244: the backup is best effort: backup_ok is whether write_text
\* got through (an OSError is swallowed)
BackupContent(r, backup_ok) == IF r.write /\ backup_ok THEN <<state_file>> ELSE bak_file

\* transition_state.py main, run alone; budget bounds the writes explored
Transition(args, backup_ok, budget) ==
  LET r == TransitionCompute(state_file, args, now) IN
    /\ r.write => writes < budget
    /\ state_file' = IF r.write THEN r.rendered ELSE state_file
    /\ writes' = IF r.write THEN writes + 1 ELSE writes
    /\ bak_file' = BackupContent(r, backup_ok)
    /\ last' = Finished("transition", r, args)
    /\ UNCHANGED <<now, pc, proc, lock_holder, serial, observed, ledger, evidence_dir, orch, gate>>

\* set_execution_lane.py main, run alone
SetExecutionLane(args, backup_ok, budget) ==
  LET r == SetLaneCompute(state_file, state_file, args) IN
    /\ r.write => writes < budget
    /\ state_file' = IF r.write THEN r.rendered ELSE state_file
    /\ writes' = IF r.write THEN writes + 1 ELSE writes
    /\ bak_file' = BackupContent(r, backup_ok)
    /\ last' = Finished("set_execution_lane", r, args)
    /\ UNCHANGED <<now, pc, proc, lock_holder, serial, observed, ledger, evidence_dir, orch, gate>>

\* migrate_state.py main with --out left empty, run alone
Migrate ==
  LET r == MigrateCompute(state_file, now) IN
    /\ r.write => writes < MaxWrites
    /\ state_file' = IF r.write THEN r.rendered ELSE state_file
    /\ writes' = IF r.write THEN writes + 1 ELSE writes
    /\ last' = Finished("migrate", r, NoArgs)
    /\ UNCHANGED <<bak_file, now, pc, proc, lock_holder, serial, observed, ledger, evidence_dir, orch, gate>>

IdleProcs ==
  /\ pc = [p \in Procs |-> "idle"]
  /\ proc = [p \in Procs |-> [tool |-> "none", args |-> NoArgs, original |-> <<>>,
                              rendered |-> <<>>, rc |-> 0, serial_rc |-> 0]]
  /\ lock_holder = {}
  /\ observed = "nothing"

\* A file of lines: open says that the last line has no newline after it
EmptyLedger == [lines |-> <<>>, open |-> FALSE]

\* No run yet; n counts the runs, steps lists <<step, exit code>> of an
\* orchestration, cmd_exit and captured are the command's exit code and
\* whether its output was captured
NoRun == [tool |-> "none", rc |-> 0, steps |-> <<>>, n |-> 0, cmd_exit |-> 0, captured |-> FALSE]
NoGate == [pc |-> "none"]

InitDocument(docs) ==
  /\ state_file \in {<<d>> : d \in docs}
  /\ bak_file = <<>>
  /\ writes = 0
  /\ now = 1
  /\ last = [tool |-> "none", rc |-> 0, err |-> "", wrote |-> FALSE, args |-> NoArgs,
             pre |-> state_file, pre_bak |-> <<>>]
  /\ serial = state_file
  /\ IdleProcs

InitFrom(docs) ==
  /\ InitDocument(docs)
  /\ ledger = EmptyLedger
  /\ evidence_dir = {}
  /\ orch = NoRun
  /\ gate = NoGate

\* --evidence and --dry-run as they are combined in the runs explored
\* and whether the backup can be written
RunModes ==
  {<<"ev.log", FALSE, TRUE>>, <<"", FALSE, FALSE>>,
   <<"missing.log", FALSE, TRUE>>, <<"ev.log", TRUE, TRUE>>}

AnyTransition ==
  \E role \in RoleInputs, to \in ToInputs, mode \in RunModes, note \in NoteInputs :
    Transition(TransitionArgs(role, to, mode[1], note, mode[2]), mode[3], MaxWrites)

AnySetExecutionLane ==
  \E lane \in LaneInputs, mode \in LaneModes, force \in BOOLEAN, dry_run \in BOOLEAN :
    SetExecutionLane(LaneArgs(lane, mode[1], force, dry_run), mode[2], MaxWrites)

\* Every tool, from any document
Init == InitFrom(InitialStates \cup EditedStates)
Next == AnyTransition \/ AnySetExecutionLane \/ Migrate
Spec == Init /\ [][Next]_vars

\* The transition engine alone, from the initial state, the lane fixed: the
\* orchestrator's calls (canonical names, the captured evidence, no dry run)
InitFixedLane ==
  InitFrom({InitialState(lane, seq, FALSE) :
              lane \in EXECUTION_LANES, seq \in {{}}}
           \cup {InitialState(lane, {LANE_REQUIRED_PHASE_SEQUENCE[lane]}, FALSE) :
                   lane \in EXECUTION_LANES})

EngineTransition ==
  \E role \in CanonicalRoles, to \in CANONICAL_PHASES :
    Transition(TransitionArgs(role, to, "ev.log", "plan", FALSE), TRUE, MaxHistory)

NextFixedLane == EngineTransition
SpecFixedLane == InitFixedLane /\ [][NextFixedLane]_vars

\* The transition engine and the lane switcher without --force, from the
\* initial state
LaneSwitchNoForce ==
  \E lane \in EXECUTION_LANES :
    SetExecutionLane(LaneArgs(lane, "ui only", FALSE, FALSE), TRUE, MaxHistory)

NextLanes == EngineTransition \/ LaneSwitchNoForce
SpecLanes == InitFixedLane /\ [][NextLanes]_vars

\* Documents that differ in their required_phase_sequence: absent, the lane
\* default, the lane default under another spelling, custom with the flag, and
\* another lane's without it
SequenceStates ==
  {InitialState(lane, {}, FALSE) : lane \in {Null, "FULL", "fast_ui"}}
  \cup {InitialState(lane, {LANE_REQUIRED_PHASE_SEQUENCE[lane]}, FALSE) : lane \in EXECUTION_LANES}
  \cup {InitialState("FAST_UI", {<<"ARCHITECT", "FRONTEND", "qa_e2e", "ANALYST_FINAL">>}, FALSE),
        [InitialState("FAST_UI", {<<"ARCHITECT", "FRONTEND">>}, FALSE) EXCEPT
           !.allow_custom_sequence = TRUE],
        InitialState("FAST_UI", {LANE_REQUIRED_PHASE_SEQUENCE["FULL"]}, FALSE),
        InitialState("FULL", {LANE_REQUIRED_PHASE_SEQUENCE["FAST_UI"]}, FALSE)}

\* The lane switcher, with and without --force
LaneSwitch ==
  \E lane \in EXECUTION_LANES, force \in BOOLEAN :
    SetExecutionLane(LaneArgs(lane, "ui only", force, FALSE), TRUE, MaxHistory)

InitSequences == InitFrom(SequenceStates)
NextSequences == EngineTransition \/ LaneSwitch
SpecSequences == InitSequences /\ [][NextSequences]_vars

\* Two FULL-lane documents in which QA_CONTRACT was never run: history
\* [ARCHITECT] with the backend next, and history [ARCHITECT, BACKEND] with the
\* CI-gate analyst next
SkippedContract ==
  [InitialState("FULL", {LANE_REQUIRED_PHASE_SEQUENCE["FULL"]}, FALSE) EXCEPT
     !.current_phase = "ARCHITECT", !.next_phase = "BACKEND",
     !.history = <<EngineEntry("ARCHITECT", "FULL")>>]

SkippedContractBackendDone ==
  [InitialState("FULL", {LANE_REQUIRED_PHASE_SEQUENCE["FULL"]}, FALSE) EXCEPT
     !.current_phase = "BACKEND", !.next_phase = "ANALYST_CI_GATE",
     !.history = <<EngineEntry("ARCHITECT", "FULL"), EngineEntry("BACKEND", "FULL")>>]

InitSkipped == InitFrom({SkippedContract, SkippedContractBackendDone})
NextSkipped == EngineTransition \/ LaneSwitch
SpecSkipped == InitSkipped /\ [][NextSkipped]_vars

\* Legacy documents: no schema version, no lane, no required sequence, and a
\* history of at most MaxLegacy bare phase strings, aliases among them
LegacyPhases ==
  {"ARCHITECT_DESIGN", "QA_CONTRACT", "BACKEND_IMPLEMENTATION", "FRONTEND", "ANALYST_FINAL"}

LegacyHistories ==
  UNION {[1..n -> {LegacyEntry(raw) : raw \in LegacyPhases}] : n \in 0..MaxLegacy}

LegacyStates ==
  {[InitialState(Null, {}, FALSE) EXCEPT
      !.schema_version = Null,
      !.current_phase = "BACKEND_IMPLEMENTATION", !.next_phase = "ANALYST_AUDIT",
      !.history = history] : history \in LegacyHistories}

InitMigrate == InitFrom(LegacyStates)
NextMigrate == Migrate
SpecMigrate == InitMigrate /\ [][NextMigrate]_vars

----------------------------------------------------------------------------
(* State-diff guard: src/swarm/state_diff_guard.py *)

\* transition_state.py line 86: the union of the lanes' tables
ALLOWED_TRANSITIONS == FULL_ALLOWED_TRANSITIONS \cup FAST_UI_ALLOWED_TRANSITIONS

\* _is_sha256_hex over the digests of the model
_is_sha256_hex(s) == s \in {_sha256_file(f) : f \in EvidenceFiles}

\* lines 81-109: a phase field canonicalized, "!none" where the guard sets None
GuardPhase(raw) ==
  IF raw = Null THEN "!none"
  ELSE IF _canonicalize_phase(raw) \in PhaseErrors THEN "!none"
  ELSE _canonicalize_phase(raw)

\* lines 146-178: the errors of the appended entry
NewEntryErrors(new_entry, base_next) ==
  IF new_entry.kind # "obj" THEN {"entry_not_object"} ELSE
    (IF _canonicalize_phase(new_entry.phase) \in PhaseErrors THEN {"entry_phase_invalid"}
     ELSE IF base_next # "!none" /\ _canonicalize_phase(new_entry.phase) # base_next
       THEN {"entry_phase_not_base_next"} ELSE {})
    \cup (IF base_next # "!none" /\ new_entry.by_role # PHASE_TO_ROLE[base_next]
            THEN {"entry_by_role"} ELSE {})
    \cup (IF new_entry.at = 0 THEN {"entry_at"} ELSE {})
    \cup (IF new_entry.evidence # <<>> /\ ~_is_sha256_hex(new_entry.evidence[2])
            THEN {"entry_sha256"} ELSE {})

\* Mutant: the base history is not compared with the head's prefix
HistoryErrors_NoPrefix(base_hist, head_hist, base_next) ==
  IF Len(head_hist) # Len(base_hist) + 1 THEN {"not_one_append"}
  ELSE NewEntryErrors(head_hist[Len(head_hist)], base_next)

\* lines 135-178: exactly one entry appended, the prefix verbatim
HistoryErrors(base_hist, head_hist, base_next) ==
  IF Len(head_hist) # Len(base_hist) + 1 THEN {"not_one_append"}
  ELSE (IF SubSeq(head_hist, 1, Len(base_hist)) # base_hist THEN {"prefix_mismatch"} ELSE {})
       \cup NewEntryErrors(head_hist[Len(head_hist)], base_next)

\* _validate_state_transition on the contents of the state file at base and at
\* head: [ok, changed, errors]; a ValidationError of _load_json_from_git is the
\* error "invalid_json" (main exits 1)
_validate_state_transition(base_text, head_text) ==
  IF base_text = head_text THEN [ok |-> TRUE, changed |-> FALSE, errors |-> {}]
  ELSE IF ~IsJson(base_text) \/ ~IsJson(head_text)
    THEN [ok |-> FALSE, changed |-> TRUE, errors |-> {"invalid_json"}]
  ELSE
    LET base_state == base_text[1]
        head_state == head_text[1]
        base_next == GuardPhase(base_state.next_phase)
        head_current == GuardPhase(head_state.current_phase)
        head_next == GuardPhase(head_state.next_phase)
        errors ==
          (IF base_next = "!none" THEN {"base_next_invalid"} ELSE {})
          \cup (IF head_current = "!none" THEN {"head_current_invalid"} ELSE {})
          \cup (IF head_next = "!none" THEN {"head_next_invalid"} ELSE {})
          \cup (IF base_next # "!none" /\ head_current # "!none" /\ head_current # base_next
                  THEN {"current_not_base_next"} ELSE {})
          \cup (IF base_next # "!none" /\ head_next # "!none"
                   /\ <<base_next, head_next>> \notin ALLOWED_TRANSITIONS
                  THEN {"illegal_transition"} ELSE {})
          \cup (IF base_state.required_phase_sequence # head_state.required_phase_sequence
                  THEN {"sequence_changed"} ELSE {})
          \cup (IF base_state.is_locked # head_state.is_locked THEN {"lock_changed"} ELSE {})
          \cup HistoryErrors(base_state.history, head_state.history, base_next)
    IN [ok |-> errors = {}, changed |-> TRUE, errors |-> errors]

\* The state file at the base of a pull request
GuardBases ==
  {InitialState(lane, {LANE_REQUIRED_PHASE_SEQUENCE[lane]}, FALSE) : lane \in EXECUTION_LANES}
  \cup {InitialState("FULL", {LANE_REQUIRED_PHASE_SEQUENCE["FULL"]}, TRUE),
        SkippedContract,
        [InitialState("FULL", {LANE_REQUIRED_PHASE_SEQUENCE["FULL"]}, FALSE) EXCEPT
           !.current_phase = "QA_E2E", !.next_phase = "ANALYST_FINAL",
           !.history = [i \in 1..6 |-> EngineEntry(DEFAULT_REQUIRED_PHASE_SEQUENCE[i], "FULL")]]}

\* The other lane
OtherLane(lane) == IF lane = "FAST_UI" THEN "FULL" ELSE "FAST_UI"

\* A head written by hand from base: one entry appended for phase with by_role,
\* current_phase and next_phase set
HeadAppending(base, cur, nxt, phase, by_role, at, evidence) ==
  [base EXCEPT !.current_phase = cur, !.next_phase = nxt, !.last_updated = 1,
               !.history = Append(@, NewHistoryEntry(phase, at, by_role, _normalize_lane(base.execution_lane), "plan", evidence))]

\* The heads a pull request may carry instead of the engine's: for each target
\* nxt, an appended entry that looks like the engine's (by the phase's role or
\* by the orchestrator), and the same with one thing more changed
HandEditedHeads(base) ==
  LET N == GuardPhase(base.next_phase)
      role == PHASE_TO_ROLE[N]
      ev == <<"ev.log", _sha256_file("ev.log")>>
      other == IF N = "FRONTEND" THEN "BACKEND" ELSE "FRONTEND"
  IN UNION {
       {HeadAppending(base, N, nxt, N, r, 1, ev) : r \in {role, "orchestrator"}}
       \cup {HeadAppending(base, "INIT", nxt, N, role, 1, ev),
             HeadAppending(base, N, nxt, other, role, 1, ev),
             HeadAppending(base, N, nxt, N, role, 0, ev),
             HeadAppending(base, N, nxt, N, role, 1, <<"ev.log", "deadbeef">>),
             [base EXCEPT !.current_phase = N, !.next_phase = nxt],
             [HeadAppending(base, N, nxt, N, role, 1, ev) EXCEPT
                !.history = Append(base.history, LegacyEntry(N))],
             [HeadAppending(base, N, nxt, N, role, 1, ev) EXCEPT
                !.history = IF base.history = <<>> THEN @
                            ELSE [@ EXCEPT ![1] = [@ EXCEPT !.note = "rewritten"]]],
             [HeadAppending(base, N, nxt, N, role, 1, ev) EXCEPT
                !.execution_lane = OtherLane(_normalize_lane(base.execution_lane))],
             [HeadAppending(base, N, nxt, N, role, 1, ev) EXCEPT !.is_locked = ~@],
             [HeadAppending(base, N, nxt, N, role, 1, ev) EXCEPT
                !.required_phase_sequence = {LANE_REQUIRED_PHASE_SEQUENCE[OtherLane(_normalize_lane(base.execution_lane))]}]}
       : nxt \in CANONICAL_PHASES}

\* The head commit changes the state file by hand
HeadEdit ==
  /\ last.tool \in {"none", "transition"}
  /\ \E head \in HandEditedHeads(state_file[1]) :
       /\ state_file' = <<head>>
       /\ last' = [tool |-> "edit", rc |-> 0, err |-> "", wrote |-> TRUE, args |-> NoArgs,
                   pre |-> state_file, pre_bak |-> bak_file]
  /\ UNCHANGED <<bak_file, writes, now, pc, proc, lock_holder, serial, observed, ledger, evidence_dir, orch, gate>>

\* The head commit changes the state file through the transition engine
HeadTransition ==
  /\ last.tool \in {"none", "transition"}
  /\ \E role \in CanonicalRoles, to \in CANONICAL_PHASES :
       Transition(TransitionArgs(role, to, "ev.log", "plan", FALSE), TRUE, MaxWrites)

\* state_diff_guard.py main: base is the state file before the last change, head
\* the state file as it is; the exit code is 0 when the result is ok
StateDiffGuard ==
  LET res == _validate_state_transition(last.pre, state_file) IN
    /\ last.tool \in {"none", "transition", "edit"}
    /\ last' = [last EXCEPT !.tool = "state_diff_guard",
                            !.rc = IF res.ok THEN 0 ELSE 1,
                            !.err = IF res.ok THEN "" ELSE "invalid",
                            !.wrote = res.changed]
    /\ UNCHANGED <<state_file, bak_file, writes, now, pc, proc, lock_holder, serial, observed, ledger, evidence_dir, orch, gate>>

InitGuard == InitFrom(GuardBases)
NextGuard == HeadEdit \/ HeadTransition \/ StateDiffGuard
SpecGuard == InitGuard /\ [][NextGuard]_vars

\* Bases the engine may be run on: those of GuardBases, documents without
\* required_phase_sequence or without a lane, and legacy documents whose
\* phases are aliases, with and without a required sequence
LegacyBase(seq) ==
  [InitialState(Null, seq, FALSE) EXCEPT
     !.schema_version = Null,
     !.current_phase = "ARCHITECT_DESIGN", !.next_phase = "QA_CONTRACT_TESTS",
     !.history = <<LegacyEntry("ARCHITECT_DESIGN")>>]

EngineBases ==
  GuardBases \cup SequenceStates
  \cup {LegacyBase({}), LegacyBase({LANE_REQUIRED_PHASE_SEQUENCE["FULL"]}),
        LegacyBase({<<"ARCHITECT_DESIGN", "QA_CONTRACT", "BACKEND", "ANALYST_AUDIT",
                      "FRONTEND", "qa_e2e", "ANALYST_FINAL">>})}

InitEngineBases == InitFrom(EngineBases)
NextEngineBases == HeadTransition \/ StateDiffGuard
SpecEngineBases == InitEngineBases /\ [][NextEngineBases]_vars

----------------------------------------------------------------------------
(* Policy engine: src/swarm/policy_guard.py.  A path and a glob are the
   sequences of their segments between slashes: "tasks/logs/**" is
   <<"tasks", "logs", "**">>. *)

GLOBAL_DENY_GLOBS_AGENT == {<<"tasks", "logs", "**">>, <<"tasks", "evidence", "**">>}

CODEOWNERS_PATH == <<".github", "CODEOWNERS">>

ROLE_ALLOW_GLOBS_AGENT ==
  [architect |->
     {<<"SWARM_CONSTITUTION.md">>, <<"SWARM_ARCHITECTURE.md">>, <<"TASKS_CONTEXT.md">>,
      <<"README.md">>, <<".gitignore">>, <<"package.json">>, <<"package-lock.json">>,
      <<"tsconfig.json">>, <<"vitest.config.ts">>, <<"playwright.config.ts">>,
      <<"next-env.d.ts">>, <<"swarm_state.json">>, <<"docs", "**">>,
      <<"config", "personas", "**">>, <<".github", "**">>, <<"githooks", "**">>,
      <<"swarm", "**">>, <<"requirements.txt">>, <<"app", "**">>, <<"components", "**">>,
      <<"data", "**">>, <<"lib", "**">>, <<"public", "**">>, <<"src", "**">>,
      <<"tests", "**">>, <<"workflows", "**">>, <<"tasks", "queue", "**">>,
      <<"tasks", "reports", "**">>, <<"tasks", "completed", "**">>,
      <<"tasks", "changes", "**">>, <<"tasks", "feedback", "**">>},
   qa |->
     {<<"tests", "**">>, <<"vitest.config.ts">>, <<"playwright.config.ts">>,
      <<"package.json">>, <<"package-lock.json">>, <<"scripts", "test.sh">>,
      <<"TASKS_CONTEXT.md">>, <<"swarm_state.json">>, <<"tasks", "reports", "**">>,
      <<"tasks", "changes", "**">>},
   backend |->
     {<<"app", "**">>, <<"components", "**">>, <<"data", "**">>, <<"lib", "**">>,
      <<"src", "**">>, <<"package.json">>, <<"package-lock.json">>, <<"tsconfig.json">>,
      <<"swarm_state.json">>, <<"tasks", "reports", "**">>, <<"tasks", "changes", "**">>},
   frontend |->
     {<<"app", "**">>, <<"components", "**">>, <<"data", "**">>, <<"public", "**">>,
      <<"package.json">>, <<"package-lock.json">>, <<"tsconfig.json">>,
      <<"swarm_state.json">>, <<"tasks", "reports", "**">>, <<"tasks", "changes", "**">>},
   analyst |->
     {<<"tasks", "feedback", "**">>, <<"tasks", "reports", "**">>,
      <<"tasks", "completed", "**">>, <<"tasks", "changes", "**">>, <<"docs", "**">>,
      <<"swarm_state.json">>},
   orchestrator |->
     {<<"swarm_state.json">>, <<"tasks", "logs", "**">>, <<"tasks", "evidence", "**">>,
      <<"tasks", "reports", "**">>, <<"tasks", "queue", "**">>,
      <<"tasks", "completed", "**">>, <<"tasks", "changes", "**">>}]

ROLE_DENY_GLOBS_AGENT ==
  [backend |-> {<<"tests", "**">>},
   frontend |-> {<<"tests", "**">>}]

\* fnmatch.fnmatch(path, g) for the globs of the tables: a literal path, or a
\* directory followed by "**" ("*" also matches slashes, so "dir/**" matches
\* every path that starts with "dir/")
fnmatch(path, g) ==
  IF g[Len(g)] = "**"
    THEN Len(path) >= Len(g) /\ SubSeq(path, 1, Len(g) - 1) = SubSeq(g, 1, Len(g) - 1)
    ELSE path = g

_matches_any(path, globs) == \E g \in globs : fnmatch(path, g)

\* Mutant: every path is in every role's allowlist
InAllowlist_Everything(path, role) == TRUE

\* lines 232-237: the path matches a glob of the role's allowlist
InAllowlist(path, role) == _matches_any(path, ROLE_ALLOW_GLOBS_AGENT[role])

\* Mutant: only the ledger log is orchestrator-only
GloballyDenied_LogsOnly(path, actor) ==
  actor # "orchestrator" /\ _matches_any(path, {<<"tasks", "logs", "**">>})

\* lines 225-227: evidence and ledger are for the orchestrator actor only
GloballyDenied(path, actor) ==
  actor # "orchestrator" /\ _matches_any(path, GLOBAL_DENY_GLOBS_AGENT)

\* _is_allowed: "" when the path is allowed, else the rule that denies it
_is_allowed(path, role, actor, state_path, allow_state_edit, allow_codeowners_edit) ==
  IF path = state_path /\ ~allow_state_edit /\ actor # "orchestrator"
    THEN "state_orchestrator_only"
  ELSE IF path = CODEOWNERS_PATH /\ ~allow_codeowners_edit THEN "codeowners_protected"
  ELSE IF GloballyDenied(path, actor) THEN "orchestrator_only"
  ELSE IF role \notin DOMAIN ROLE_ALLOW_GLOBS_AGENT THEN "no_allowlist"
  ELSE IF ~InAllowlist(path, role) THEN "not_in_allowlist"
  ELSE IF role \in DOMAIN ROLE_DENY_GLOBS_AGENT /\ _matches_any(path, ROLE_DENY_GLOBS_AGENT[role])
    THEN "role_deny"
  ELSE ""

\* The state file as git names it, which is also --state left at its default
StatePath == <<"swarm_state.json">>

\* The absolute path of the same file, as orchestrate.py passes it
\* (lines 113 and 128): "/repo/swarm_state.json"
AbsoluteStatePath == <<"", "repo", "swarm_state.json">>

\* Path(path).is_absolute()
is_absolute(path) == path[1] = ""

\* The values of --state in the model; each names the same file
StateArgs == {StatePath, AbsoluteStatePath}

\* args.actor.strip().lower() over the actor strings of the model
ActorLower(raw) ==
  CASE raw = " Orchestrator " -> "orchestrator"
    [] OTHER -> raw

PolicyError(err) == [rc |-> 1, err |-> err, violations |-> {}]

\* main, lines 258-286: the document whose next_phase names the expected role;
\* in diff mode the base's, with next_phase replaced by head's current_phase
\* when the state file changed and head's can be read
PolicyState(base_text, head_text, mode) ==
  IF mode = "working_tree" THEN head_text
  ELSE IF ~IsJson(base_text) THEN base_text
  ELSE IF base_text # head_text /\ IsJson(head_text)
          /\ head_text[1].current_phase # Null
          /\ _canonicalize_phase(head_text[1].current_phase) \notin PhaseErrors
    THEN <<[base_text[1] EXCEPT !.next_phase = _canonicalize_phase(head_text[1].current_phase)]>>
  ELSE base_text

\* main: [rc, err, violations]; a ValidationError ends the run with exit code
\* 1 and no list of violations.  allow_codeowners_edit is the flag or the
\* environment override.
PolicyCompute(base_text, head_text, args) ==
  LET text == PolicyState(base_text, head_text, args.mode) IN
  IF args.mode = "diff" /\ is_absolute(args.state) THEN PolicyError("state_not_relative") ELSE
  IF ~IsJson(text) THEN PolicyError("invalid_json") ELSE
  IF text[1].next_phase = Null THEN PolicyError("phase_not_string") ELSE
  LET next_phase == _canonicalize_phase(text[1].next_phase) IN
  IF next_phase \in PhaseErrors THEN PolicyError("invalid_phase") ELSE
  LET expected_role == PHASE_TO_ROLE[next_phase]
      actor == ActorLower(args.actor)
  IN
  IF actor \notin {"agent", "orchestrator"} THEN PolicyError("bad_actor") ELSE
  LET role == IF args.role = "" THEN expected_role ELSE _normalize_role(args.role) IN
  IF role \in RoleErrors THEN PolicyError("unknown_role") ELSE
  IF role # expected_role THEN PolicyError("role_mismatch") ELSE
  LET violations ==
        {<<q, _is_allowed(q, role, actor, args.state, args.mode = "diff",
                          args.allow_codeowners_edit)>> : q \in args.changed}
        \ {<<q, "">> : q \in args.changed}
  IN [rc |-> IF violations = {} THEN 0 ELSE 1,
      err |-> IF violations = {} THEN "" ELSE "violations",
      violations |-> violations]

\* The files of the model's working tree
AppFile == <<"app", "x.ts">>
TestFile == <<"tests", "y.test.ts">>
LedgerLog == <<"tasks", "logs", "ledger.jsonl">>
RawEvidence == <<"tasks", "evidence", "run1", "out.log">>
ReportFile == <<"tasks", "reports", "r.md">>
ReadmeFile == <<"README.md">>

\* The sets of changed paths given to the policy engine (the state file is
\* added or removed by the run according to the mode)
ChangedSets ==
  {{}, {AppFile}, {AppFile, TestFile}, {TestFile}, {LedgerLog}, {RawEvidence},
   {LedgerLog, ReportFile}, {AppFile, RawEvidence}, {CODEOWNERS_PATH},
   {ReadmeFile, ReportFile}, {StatePath}, {StatePath, AppFile}}

PolicyRoleInputs == {"", "backend", "frontend", "qa", "orchestrator", "DEV", "intern"}
PolicyActorInputs == {"agent", " Orchestrator ", "bot"}
PolicyModes == {"working_tree", "diff"}

\* git status / git diff --name-only: in diff mode the state file is listed
\* exactly when base and head differ in it
ChangedFiles(mode, chosen, base_text, head_text) ==
  IF mode = "working_tree" THEN chosen
  ELSE (chosen \ {StatePath}) \cup (IF base_text # head_text THEN {StatePath} ELSE {})

PolicyArgs(state, role, actor, mode, changed, allow_codeowners_edit) ==
  [state |-> state, role |-> role, actor |-> actor, mode |-> mode, changed |-> changed,
   allow_codeowners_edit |-> allow_codeowners_edit]

\* One run of policy_guard.py: base is the document before the last write,
\* head and the working tree are the state file
PolicyGuard ==
  /\ last.tool \in {"none", "transition"}
  /\ \E role \in PolicyRoleInputs, actor \in PolicyActorInputs, mode \in PolicyModes,
        chosen \in ChangedSets, allow \in BOOLEAN, state \in StateArgs :
       LET args == PolicyArgs(state, role, actor, mode,
                              ChangedFiles(mode, chosen, last.pre, state_file), allow)
           res == PolicyCompute(last.pre, state_file, args)
       IN last' = [last EXCEPT !.tool = "policy_guard", !.rc = res.rc, !.err = res.err,
                               !.wrote = FALSE, !.args = args]
  /\ UNCHANGED <<state_file, bak_file, writes, now, pc, proc, lock_holder, serial, observed, ledger, evidence_dir, orch, gate>>

InitPolicy == InitFrom(GuardBases)
NextPolicy == HeadTransition \/ PolicyGuard
SpecPolicy == InitPolicy /\ [][NextPolicy]_vars

----------------------------------------------------------------------------
(* Evidence ledger: src/swarm/capture_test_output.py.  A text is the sequence
   of its lines; a line is <<prefix, value>>, the text of the prefix followed
   by the rendering of the value, and <<"- hmac: ", hex, rest>> for a line
   that starts with "- hmac: " and 64 hexadecimal digits.  A hexadecimal
   digest is the tuple of what was hashed, the empty string is <<>>. *)

\* sha256(data).hexdigest(): the contents of the model have distinct digests
_sha256_bytes(raw) == <<"sha256", raw>>

\* HMAC-SHA256 of prev_hmac + "\n" + block under key, as hexadecimal digits
_compute_block_hmac(key, prev_hmac, block) == <<"hmac", key, prev_hmac, block>>

\* run_id = f"L1-{ts_compact}-{digest[:8]}" (lines 86-87)
RunId(ts, digest) == <<"L1", ts, digest>>

\* Mutant: the blob is named by its content alone
EvidencePath_ContentOnly(run_id, digest) == <<<<"L1", 0, digest>>, digest>>

\* evidence_dir / f"{run_id}_{digest}.log" (line 92)
EvidencePath(run_id, digest) == <<run_id, digest>>

\* The regular expression of _find_last_hmac, r"^- hmac: ([0-9a-f]{64})\\s*$":
\* in a raw string \\ is an escaped backslash, so after the 64 digits the
\* line must hold one backslash and then any number of letters s
HmacPatternMatches(line) ==
  /\ Len(line) = 3
  /\ line[1] = "- hmac: "
  /\ line[3] \in {"\\", "\\s", "\\ss"}

\* _find_last_hmac: the digits of the last matching line, or ""
_find_last_hmac(lines) ==
  LET m == {i \in DOMAIN lines : HmacPatternMatches(lines[i])} IN
  IF m = {} THEN <<>>
  ELSE lines[CHOOSE i \in m : \A j \in m : j <= i][2]

\* head.rstrip("\n") and tail.rstrip("\n") for an output of at most
\* max_snippet_lines lines: its lines, or one empty line
SnippetLines(raw) == IF raw = <<>> THEN <<<<"", "">>>> ELSE raw

\* block_lines joined by newlines (lines 101-125), the fence written ~~~;
\* its last newline is part
\* of the block
BlockHeader(run_id, ts, a, exit_code, digest, evidence_path) ==
  <<<<"## Run: ", run_id>>,
    <<"- timestamp_utc: ", ts>>,
    <<"- actor: ", a.actor>>,
    <<"- phase: ", a.phase>>,
    <<"- task_id: ", a.task_id>>,
    <<"- command: ", a.command>>,
    <<"- exit_code: ", exit_code>>,
    <<"- sha256: ", digest>>,
    <<"- evidence: ", evidence_path>>>>

BlockSnippets(raw) ==
  <<<<"", "">>, <<"", "<details>">>, <<"", "<summary>">>, <<"", "">>,
    <<"", "~~~text">>, <<"", "### HEAD">>>>
  \o SnippetLines(raw)
  \o <<<<"", "">>, <<"", "### TAIL">>>>
  \o SnippetLines(raw)
  \o <<<<"", "~~~">>, <<"", "</details>">>>>

HeaderLen == 9

\* What main appends (lines 136-158): the block and an empty line, or with
\* a key the block with the two hmac lines after the evidence line
WrittenBlock(header, snippets, key, prev_hmac) ==
  IF key = ""
    THEN header \o snippets \o <<<<"", "">>>>
    ELSE header
         \o <<<<"- hmac: ", _compute_block_hmac(key, prev_hmac, header \o snippets), "">>,
              <<"- prev_hmac: ", prev_hmac>>>>
         \o snippets

\* Mutant: the ledger is written anew
AppendText_Rewrites(existing, block) == [lines |-> block, open |-> FALSE]

\* open("a") and the writes: a newline first when the existing text does
\* not end with one
AppendText(existing, block) == [lines |-> existing.lines \o block, open |-> FALSE]

\* main of capture_test_output.py: the exit code, the ledger and the blobs
\* it leaves; raised says that main ended with an exception or SystemExit
\* instead of returning.  input_ok: the --input file can be read; ledger_ok: the ledger
\* can be read and opened for append (else the exception ends the process
\* with exit code 1 after the blob was written).
CaptureCompute(led, dir, ts, a, key, input_ok, ledger_ok) ==
  LET digest == _sha256_bytes(a.raw)
      run_id == RunId(ts, digest)
      evidence_path == EvidencePath(run_id, digest)
      dir2 == IF \E b \in dir : b[1] = evidence_path THEN dir
              ELSE dir \cup {<<evidence_path, a.raw>>}
      header == BlockHeader(run_id, ts, a, a.exit_code, digest, evidence_path)
      prev_hmac == _find_last_hmac(led.lines)
  IN IF ~input_ok
       THEN [rc |-> 1, raised |-> TRUE, ledger |-> led, evidence_dir |-> dir, run_id |-> run_id]
     ELSE IF ~ledger_ok
       THEN [rc |-> 1, raised |-> TRUE, ledger |-> led, evidence_dir |-> dir2, run_id |-> run_id]
     ELSE [rc |-> 0, raised |-> FALSE,
           ledger |-> AppendText(led, WrittenBlock(header, BlockSnippets(a.raw), key, prev_hmac)),
           evidence_dir |-> dir2, run_id |-> run_id]

\* The outputs captured: nothing, one line, two lines, and an output with a
\* line that the pattern of _find_last_hmac matches
RawOutputs ==
  {<<>>, <<<<"", "ok">>>>, <<<<"", "FAIL">>, <<"", "1 failed">>>>,
   <<<<"- hmac: ", <<"printed">>, "\\">>>>}

\* SWARM_LOG_HMAC_KEY: unset, or a key
LogKeys == {"", "k"}

CaptureArgs(raw, exit_code) ==
  [raw |-> raw, exit_code |-> exit_code, command |-> "npm test", actor |-> "orchestrator",
   phase |-> "BACKEND", task_id |-> "T1"]

\* The ledger before the first capture: none, or text written by hand that
\* ends with or without a newline
InitialLedgers ==
  {EmptyLedger,
   [lines |-> <<<<"", "# CI logs">>>>, open |-> FALSE],
   [lines |-> <<<<"", "# CI logs">>>>, open |-> TRUE]}

\* One run of capture_test_output.py
Capture ==
  /\ orch.n < MaxCaptures
  /\ \E raw \in RawOutputs, exit_code \in {0, 2}, key \in LogKeys,
        input_ok \in BOOLEAN, ledger_ok \in BOOLEAN :
       LET res == CaptureCompute(ledger, evidence_dir, now, CaptureArgs(raw, exit_code),
                                 key, input_ok, ledger_ok)
       IN /\ ledger' = res.ledger
          /\ evidence_dir' = res.evidence_dir
          /\ orch' = [tool |-> "capture", rc |-> res.rc, steps |-> <<>>, n |-> orch.n + 1,
                      cmd_exit |-> exit_code, captured |-> res.rc = 0]
  /\ UNCHANGED <<state_file, bak_file, writes, now, last, pc, proc, lock_holder, serial,
                 observed, gate>>

\* A second passes
Tick ==
  /\ now < MaxClock
  /\ now' = now + 1
  /\ UNCHANGED <<state_file, bak_file, writes, last, pc, proc, lock_holder, serial,
                 observed, ledger, evidence_dir, orch, gate>>

InitLedger ==
  /\ InitDocument({InitialState("FULL", {LANE_REQUIRED_PHASE_SEQUENCE["FULL"]}, FALSE)})
  /\ ledger \in InitialLedgers
  /\ evidence_dir = {}
  /\ orch = NoRun
  /\ gate = NoGate

NextLedger == Capture \/ Tick
SpecLedger == InitLedger /\ [][NextLedger]_vars

----------------------------------------------------------------------------
(* Command runner: src/swarm/run_and_capture.py *)

\* proc.returncode of the commands of the model
CommandExits == {0, 1, 2, 3}

\* main: the temporary file always exists, so the capturer reads its input.
\* An exception of the capturer is not caught and ends the process with
\* exit code 1; line 64 handles a capturer that returns non-zero.
RunAndCaptureCompute(led, dir, ts, raw, cmd_exit, key, ledger_ok) ==
  LET a == [CaptureArgs(raw, cmd_exit) EXCEPT !.actor = "orchestrator"]
      cap == CaptureCompute(led, dir, ts, a, key, TRUE, ledger_ok)
  IN [rc |-> IF cap.raised THEN 1 ELSE IF cap.rc # 0 THEN 2 ELSE cmd_exit,
      captured |-> ~cap.raised /\ cap.rc = 0,
      ledger |-> cap.ledger, evidence_dir |-> cap.evidence_dir, run_id |-> cap.run_id]

\* One run of run_and_capture.py
RunAndCapture ==
  /\ orch.n < MaxCaptures
  /\ \E raw \in RawOutputs, cmd_exit \in CommandExits, key \in LogKeys, ledger_ok \in BOOLEAN :
       LET res == RunAndCaptureCompute(ledger, evidence_dir, now, raw, cmd_exit, key, ledger_ok)
       IN /\ ledger' = res.ledger
          /\ evidence_dir' = res.evidence_dir
          /\ orch' = [tool |-> "run_and_capture", rc |-> res.rc, steps |-> <<>>,
                      n |-> orch.n + 1, cmd_exit |-> cmd_exit, captured |-> res.captured]
  /\ UNCHANGED <<state_file, bak_file, writes, now, last, pc, proc, lock_holder, serial,
                 observed, gate>>

NextRunner == RunAndCapture \/ Tick
SpecRunner == InitLedger /\ [][NextRunner]_vars

----------------------------------------------------------------------------
(* Validator: src/swarm/validate_state.py, run without SWARM_STATE_HMAC_KEY *)

\* _validate_required_sequence raises: a required phase is on the timeline
\* and an earlier one is not
RequiredOrderViolated(timeline, required_sequence) ==
  \E i \in DOMAIN required_sequence, j \in DOMAIN required_sequence :
    /\ i < j
    /\ required_sequence[j] \in Range(timeline)
    /\ required_sequence[i] \notin Range(timeline)

\* The phases the validator refuses in the FAST_UI lane (validate_state.py
\* lines 314-326)
FastUiDisallowed == {"QA_CONTRACT", "BACKEND", "ANALYST_CI_GATE"}

CanonicalOrNull(raw) ==
  IF raw = Null THEN Null
  ELSE IF _canonicalize_phase(raw) \in PhaseErrors THEN Null
  ELSE _canonicalize_phase(raw)

IsValidPhase(x) == x \notin PhaseErrors

\* main, lines 221-343: the errors collected for a document and --role
ValidateErrors(state, role) ==
  LET canonical_current == CanonicalOrNull(state.current_phase)
      canonical_next == CanonicalOrNull(state.next_phase)
      lane0 == _normalize_lane(state.execution_lane)
      lane == IF lane0 = "!unknown_lane" THEN "FULL" ELSE lane0
      lane_default_seq == LANE_REQUIRED_PHASE_SEQUENCE[lane]
      raw_seq == IF state.required_phase_sequence = {} THEN <<>>
                 ELSE CHOOSE q \in state.required_phase_sequence : TRUE
      seq == [i \in 1..Len(raw_seq) |-> _canonicalize_phase(raw_seq[i])]
      seq_invalid == \E i \in 1..Len(seq) : seq[i] \in PhaseErrors
      required_seq == IF state.required_phase_sequence = {} \/ seq_invalid
                        THEN lane_default_seq ELSE seq
      history_phases_raw == _iter_history_phases(state.history)
      canonical_history ==
        [i \in 1..Len(history_phases_raw) |-> _canonicalize_phase(history_phases_raw[i])]
      timeline0 == SelectSeq(canonical_history, IsValidPhase)
      canonical_timeline ==
        IF canonical_current # Null
             /\ (timeline0 = <<>> \/ timeline0[Len(timeline0)] # canonical_current)
          THEN Append(timeline0, canonical_current) ELSE timeline0
  IN {"locked" : x \in {1} \cap (IF state.is_locked THEN {1} ELSE {})}
     \cup (IF canonical_current = Null THEN {"current_phase"} ELSE {})
     \cup (IF canonical_next = Null THEN {"next_phase"} ELSE {})
     \cup (IF lane0 = "!unknown_lane" THEN {"unknown_lane"} ELSE {})
     \cup (IF state.required_phase_sequence # {} /\ seq_invalid THEN {"invalid_sequence"} ELSE {})
     \cup (IF state.required_phase_sequence # {} /\ ~seq_invalid /\ seq # lane_default_seq
              /\ ~state.allow_custom_sequence THEN {"sequence_mismatch"} ELSE {})
     \cup (IF \E i \in 1..Len(canonical_history) : canonical_history[i] \in PhaseErrors
             THEN {"history_phase"} ELSE {})
     \cup (IF canonical_timeline # <<>> /\ RequiredOrderViolated(canonical_timeline, required_seq)
             THEN {"order_violated"} ELSE {})
     \cup (IF canonical_next # Null /\ canonical_next \in Range(required_seq)
              /\ \E i \in 1..(IndexOf(required_seq, canonical_next) - 1) :
                   required_seq[i] \notin Range(canonical_timeline)
             THEN {"phase_skip"} ELSE {})
     \cup (IF lane = "FAST_UI" /\ canonical_current \in FastUiDisallowed
             THEN {"fast_ui_current"} ELSE {})
     \cup (IF lane = "FAST_UI" /\ canonical_next \in FastUiDisallowed
             THEN {"fast_ui_next"} ELSE {})
     \cup (IF canonical_next # Null /\ role # "" /\ _normalize_role(role) \in RoleErrors
             THEN {"unknown_role"} ELSE {})
     \cup (IF canonical_next # Null /\ role # "" /\ _normalize_role(role) \notin RoleErrors
              /\ _normalize_role(role) # PHASE_TO_ROLE[canonical_next]
             THEN {"role_mismatch"} ELSE {})

\* main: exit code 0 iff no error; a ValidationError of _load_json or
\* _iter_history_phases is not caught and ends the process with exit code 1
ValidateCompute(text, role) ==
  IF ~IsJson(text) THEN [rc |-> 1, errors |-> {"invalid_json"}]
  ELSE IF ~HistoryWellFormed(text[1].history) THEN [rc |-> 1, errors |-> {"history_malformed"}]
  ELSE [rc |-> IF ValidateErrors(text[1], role) = {} THEN 0 ELSE 1,
        errors |-> ValidateErrors(text[1], role)]

\* isinstance(x, str) for the value of a signature field
IsSignatureString(x) == x # NoSignature

\* main, lines 345-361: the integrity check under SWARM_STATE_HMAC_KEY:
\* "" for a document that passes, "unsigned" for the message about a missing
\* signature (an error with --require-hmac, else a warning), "hmac_mismatch"
IntegrityCheck(state, hmac_key) ==
  IF hmac_key = "" THEN ""
  ELSE LET stored_hmac ==
             IF state.integrity.kind = "dict" /\ IsSignatureString(state.integrity.hmac)
               THEN state.integrity.hmac ELSE state.state_hmac
           computed == _compute_state_hmac(state, hmac_key)
       IN IF ~IsSignatureString(stored_hmac) \/ stored_hmac = EmptySignature THEN "unsigned"
          ELSE IF stored_hmac # computed THEN "hmac_mismatch"
          ELSE ""

\* main with the key of the environment and --require-hmac
ValidateSignedCompute(text, role, hmac_key, require_hmac) ==
  LET v == ValidateCompute(text, role)
      integrity == IF IsJson(text) /\ HistoryWellFormed(text[1].history)
                     THEN IntegrityCheck(text[1], hmac_key) ELSE ""
      failed == integrity = "hmac_mismatch" \/ (integrity = "unsigned" /\ require_hmac)
  IN [rc |-> IF v.rc # 0 \/ failed THEN 1 ELSE 0,
      err |-> integrity, write |-> FALSE]

StateKey == "k"

\* The documents the signing engine starts from: unsigned, signed by the
\* engine in state_hmac, signed in integrity.hmac, and with an integrity
\* object that holds no signature
SignedPlaces(state) ==
  {state,
   SignState(state, StateKey),
   [state EXCEPT !.integrity = IntegrityWith(_compute_state_hmac(state, StateKey))],
   SignState([state EXCEPT !.integrity = IntegrityWith(NoSignature)], StateKey)}

InitSigned ==
  InitFrom(SignedPlaces(InitialState("FULL", {LANE_REQUIRED_PHASE_SEQUENCE["FULL"]}, FALSE)))

\* The transition engine with and without the key in its environment
KeyedTransition ==
  \E role \in CanonicalRoles, to \in CANONICAL_PHASES, key \in {"", StateKey} :
    Transition([TransitionArgs(role, to, "ev.log", "plan", FALSE) EXCEPT !.hmac_key = key],
               TRUE, MaxWrites)

\* Documents that differ from the state in one field that is no signature
TamperedStates(state) ==
  {[state EXCEPT !.is_locked = ~@],
   [state EXCEPT !.next_phase = "COMPLETE"],
   [state EXCEPT !.last_updated = @ + 1],
   [state EXCEPT !.lane_reason = "edited"],
   [state EXCEPT !.history = IF @ = <<>> THEN <<LegacyEntry("ARCHITECT")>>
                             ELSE SubSeq(@, 1, Len(@) - 1)]} \ {state}

\* An edit of the state file that leaves the signature fields as they are
Tamper ==
  /\ last.tool = "none" \/ (last.tool = "transition" /\ last.wrote)
  /\ \E edited \in TamperedStates(state_file[1]) :
       /\ state_file' = <<edited>>
       /\ last' = [tool |-> "tamper", rc |-> 0, err |-> "", wrote |-> TRUE, args |-> NoArgs,
                   pre |-> state_file, pre_bak |-> bak_file]
  /\ UNCHANGED <<bak_file, writes, now, pc, proc, lock_holder, serial, observed, ledger, evidence_dir, orch, gate>>

\* validate_state.py main under the key
ValidateSigned ==
  /\ last.tool # "validate"
  /\ \E role \in {"", "architect"}, require_hmac \in BOOLEAN :
       last' = Finished("validate",
                        ValidateSignedCompute(state_file, role, StateKey, require_hmac),
                        NoArgs)
  /\ UNCHANGED <<state_file, bak_file, writes, now, pc, proc, lock_holder, serial, observed, ledger, evidence_dir, orch, gate>>

NextSigned == KeyedTransition \/ Tamper \/ ValidateSigned
SpecSigned == InitSigned /\ [][NextSigned]_vars

\* main, all of it: the errors of one run.  The ValidationError of a
\* malformed history (line 286) is raised outside every try: the run ends
\* with its traceback, exit code 1, and prints none of the errors collected.
ValidateReport(text, role, hmac_key, require_hmac) ==
  LET v == ValidateCompute(text, role)
      raised == ~IsJson(text) \/ ~HistoryWellFormed(text[1].history)
      integrity == IF raised THEN "" ELSE IntegrityCheck(text[1], hmac_key)
      failed == integrity = "hmac_mismatch" \/ (integrity = "unsigned" /\ require_hmac)
  IN [rc |-> IF v.rc # 0 \/ failed THEN 1 ELSE 0,
      errors |-> v.errors \cup (IF failed THEN {integrity} ELSE {})]

\* A document waiting for the contract tests, and the ways it can be wrong
WaitingForQa ==
  [InitialState("FULL", {LANE_REQUIRED_PHASE_SEQUENCE["FULL"]}, FALSE) EXCEPT
     !.current_phase = "ARCHITECT", !.next_phase = "QA_CONTRACT",
     !.history = <<EngineEntry("ARCHITECT", "FULL")>>]

ViolatingStates ==
  {SignState([WaitingForQa EXCEPT !.is_locked = locked, !.execution_lane = lane,
                                  !.required_phase_sequence = {seq}, !.history = history],
             StateKey)
     : locked \in BOOLEAN, lane \in EXECUTION_LANES,
       seq \in {LANE_REQUIRED_PHASE_SEQUENCE[l] : l \in EXECUTION_LANES},
       history \in {<<EngineEntry("ARCHITECT", "FULL")>>,
                    <<EngineEntry("BACKEND", "FULL")>>,
                    <<[EngineEntry("ARCHITECT", "FULL") EXCEPT !.phase = Null]>>}}

\* The signed documents and the same documents edited after they were signed
InitValidate ==
  InitFrom(ViolatingStates \cup {[d EXCEPT !.lane_reason = "edited"] : d \in ViolatingStates})

\* validate_state.py main: the run writes nothing; last keeps its arguments,
\* its exit code and the errors it printed
Validate ==
  /\ last.tool = "none"
  /\ \E role \in {"", "architect", "qa"}, hmac_key \in {"", StateKey}, require_hmac \in BOOLEAN :
       \E r \in {ValidateReport(state_file, role, hmac_key, require_hmac)} :
         last' = [tool |-> "validate", rc |-> r.rc, err |-> "", wrote |-> FALSE,
                  args |-> [NoArgs EXCEPT !.role = role, !.hmac_key = hmac_key],
                  pre |-> state_file, pre_bak |-> bak_file, errors |-> r.errors]
  /\ UNCHANGED <<state_file, bak_file, writes, now, pc, proc, lock_holder, serial, observed, ledger, evidence_dir, orch, gate>>

NextValidate == Validate
SpecValidate == InitValidate /\ [][NextValidate]_vars

----------------------------------------------------------------------------
(* Orchestrator: src/swarm/orchestrate.py *)

\* _parse_last_run: the last line that starts with "## Run: " and the first
\* "- evidence: " line from there on; run_id and evidence are the values of
\* the two lines
_parse_last_run(lines) ==
  LET headers == {i \in DOMAIN lines : lines[i][1] = "## Run: "} IN
  IF headers = {} THEN [ok |-> FALSE, at |-> 0, run_id |-> <<>>, evidence |-> <<>>]
  ELSE LET h == CHOOSE i \in headers : \A j \in headers : j <= i
           ev == {i \in h..Len(lines) : lines[i][1] = "- evidence: "}
       IN IF ev = {} THEN [ok |-> FALSE, at |-> 0, run_id |-> lines[h][2], evidence |-> <<>>]
          ELSE [ok |-> TRUE, at |-> CHOOSE i \in ev : \A j \in ev : i <= j,
                run_id |-> lines[h][2],
                evidence |-> lines[CHOOSE i \in ev : \A j \in ev : i <= j][2]]

\* note, line 176, for an empty --note
CmdNote(cmd_exit, run_id) == <<"(cmd_exit=", cmd_exit, ", run_id=", run_id, ")">>

\* line 173: the path handed to --evidence for the value of the evidence
\* line.  A value of one part is a path written as such; a blob of the
\* evidence directory that exists is the file "ev.log" of the engine's model.
EvidenceArgument(evidence, dir) ==
  IF Len(evidence) = 1 THEN evidence[1]
  ELSE IF \E b \in dir : b[1] = evidence THEN "ev.log" ELSE "missing.log"

OrchestrateArgs(role, to, changed, mocks_rc, placeholders_rc, raw, cmd_exit, ledger_ok) ==
  [role |-> role, to |-> to, changed |-> changed, mocks_rc |-> mocks_rc,
   placeholders_rc |-> placeholders_rc, raw |-> raw, cmd_exit |-> cmd_exit,
   ledger_ok |-> ledger_ok]

\* main: the steps that ran with their exit codes, the exit code of the
\* orchestrator, and what the runner and the transition engine computed.
\* The evidence handed to the transition engine is the blob named by the
\* last run block of the ledger, a file that exists ("ev.log").
OrchestrateSteps(a, v, pol, run, parsed, targs, tr) ==
  LET steps == <<<<"validate_state", v.rc>>, <<"policy_guard", pol.rc>>,
                 <<"no_mocks_guard", a.mocks_rc>>,
                 <<"no_placeholders_guard", a.placeholders_rc>>,
                 <<"run_and_capture", run.rc>>,
                 <<"parse_last_run", IF parsed.ok THEN 0 ELSE 1>>,
                 <<"transition_state", tr.rc>>>>
      \* the exit code and the number of steps that ran
      end == IF v.rc # 0 THEN <<v.rc, 1>>
             ELSE IF pol.rc # 0 THEN <<pol.rc, 2>>
             ELSE IF a.mocks_rc # 0 THEN <<a.mocks_rc, 3>>
             ELSE IF a.placeholders_rc # 0 THEN <<a.placeholders_rc, 4>>
             ELSE IF run.rc = 2 THEN <<2, 5>>
             ELSE IF ~parsed.ok THEN <<1, 6>>
             ELSE <<tr.rc, 7>>
  IN [rc |-> end[1], steps |-> SubSeq(steps, 1, end[2]), ran |-> end[2] >= 5,
      run |-> run, moved |-> end[2] = 7, tr |-> tr, targs |-> targs, parsed |-> parsed]

OrchestrateTransition(text, ts, a, v, pol, run, parsed, targs) ==
  OrchestrateSteps(a, v, pol, run, parsed, targs, TransitionCompute(text, targs, ts))

OrchestrateParsed(text, ts, a, v, pol, run, parsed) ==
  OrchestrateTransition(text, ts, a, v, pol, run, parsed,
    TransitionArgs(a.role, a.to,
                   IF parsed.ok THEN EvidenceArgument(parsed.evidence, run.evidence_dir)
                   ELSE "",
                   CmdNote(run.rc, parsed.run_id), FALSE))

OrchestrateAfterRun(text, ts, a, v, pol, run) ==
  OrchestrateParsed(text, ts, a, v, pol, run, _parse_last_run(run.ledger.lines))

OrchestrateCompute(text, led, dir, ts, a) ==
  OrchestrateAfterRun(text, ts, a,
    ValidateCompute(text, a.role),
    PolicyCompute(text, text,
      PolicyArgs(AbsoluteStatePath, a.role, "agent", "working_tree", a.changed, FALSE)),
    RunAndCaptureCompute(led, dir, ts, a.raw, a.cmd_exit, "", a.ledger_ok))

OrchestrateRoles == {"architect", "qa"}
OrchestrateTargets == {"QA_CONTRACT", "BACKEND"}
OrchestrateChanges == {{}, {AppFile}}
\* the exit codes of no_mocks_guard.py and no_placeholders_guard.py
OrchestrateGuards == {<<0, 0>>, <<1, 0>>, <<0, 1>>}
\* what the command prints: one line, or two lines that read like the
\* header and the evidence line of a run block
OrchestrateOutputs ==
  {<<<<"", "ok">>>>,
   <<<<"## Run: ", <<"forged">>>>, <<"- evidence: ", <<"README.md">>>>>>}

\* One run of orchestrate.py
Orchestrate ==
  /\ orch.n < MaxCaptures
  /\ writes < MaxWrites
  /\ \E role \in OrchestrateRoles, to \in OrchestrateTargets, changed \in OrchestrateChanges,
        guards \in OrchestrateGuards, cmd_exit \in CommandExits, ledger_ok \in BOOLEAN,
        raw \in OrchestrateOutputs :
       \E res \in {OrchestrateCompute(state_file, ledger, evidence_dir, now,
                     OrchestrateArgs(role, to, changed, guards[1], guards[2],
                                     raw, cmd_exit, ledger_ok))} :
       \E wrote \in {res.moved /\ res.tr.write} :
          /\ ledger' = IF res.ran THEN res.run.ledger ELSE ledger
          /\ evidence_dir' = IF res.ran THEN res.run.evidence_dir ELSE evidence_dir
          /\ state_file' = IF wrote THEN res.tr.rendered ELSE state_file
          /\ writes' = IF wrote THEN writes + 1 ELSE writes
          /\ bak_file' = IF res.moved THEN BackupContent(res.tr, TRUE) ELSE bak_file
          /\ last' = IF res.moved THEN Finished("transition", res.tr, res.targs) ELSE last
          /\ orch' = [tool |-> "orchestrate", rc |-> res.rc, steps |-> res.steps,
                      n |-> orch.n + 1, cmd_exit |-> cmd_exit,
                      captured |-> res.ran /\ res.run.captured,
                      own_run_id |-> res.run.run_id, parsed |-> res.parsed]
  /\ UNCHANGED <<now, pc, proc, lock_holder, serial, observed, gate>>

InitOrchestrate ==
  /\ InitDocument({InitialState(lane, {LANE_REQUIRED_PHASE_SEQUENCE[lane]}, FALSE) :
                     lane \in EXECUTION_LANES})
  /\ ledger \in {EmptyLedger, [lines |-> <<<<"", "# CI logs">>>>, open |-> FALSE]}
  /\ evidence_dir = {}
  /\ orch = NoRun
  /\ gate = NoGate

NextOrchestrate == Orchestrate
SpecOrchestrate == InitOrchestrate /\ [][NextOrchestrate]_vars

----------------------------------------------------------------------------
(* CI-gate waiter: src/swarm/gh_pr_gate.py.  gate holds the waiter (pc, its
   arguments, start, last_sha, what its last iteration did and the calls by
   which it wrote to the pull request) and the pull request as the API shows
   it (pr_state, head_sha, the check runs of the head commit by name, the
   reviews oldest first, merged). *)

\* The required contexts of the branch protection, in the model
RequiredChecks == {"tests/unit-integration", "tests/e2e"}

\* A check run as the API lists it; MissingRun stands for no run of that name
MissingRun == [status |-> "missing", conclusion |-> "None"]
QueuedRun == [status |-> "queued", conclusion |-> "None"]
SuccessRun == [status |-> "completed", conclusion |-> "success"]
FailureRun == [status |-> "completed", conclusion |-> "failure"]
SkippedRun == [status |-> "completed", conclusion |-> "skipped"]

\* _summarize_required_checks: bad holds the names that get a line in bad_lines
Summarize(required, runs) ==
  [all_present |-> \A n \in required : runs[n] # MissingRun,
   all_completed |-> \A n \in required : runs[n].status = "completed",
   bad |-> {n \in required : ~(runs[n].status = "completed" /\ runs[n].conclusion = "success")}]

\* Mutant: missing checks do not count
Green_IgnoresMissing(required, runs) ==
  \A n \in required : runs[n] = MissingRun \/ runs[n] = SuccessRun

\* line 368: all_present and all_completed and not bad_lines
Green(required, runs) ==
  LET sm == Summarize(required, runs) IN sm.all_present /\ sm.all_completed /\ sm.bad = {}

\* Mutant: a failure is reported only when every check is completed
AnyFailed_WhenAllCompleted(required, runs) ==
  /\ \A n \in required : runs[n].status = "completed"
  /\ \E n \in required : runs[n].conclusion # "success"

\* line 416, over the texts of bad_lines: the line holds "conclusion=" (it
\* is not a MISSING line), does not hold "conclusion=success" and holds
\* "status=completed"
AnyFailed(required, runs) ==
  \E n \in Summarize(required, runs).bad :
    /\ runs[n] # MissingRun
    /\ runs[n].conclusion # "success"
    /\ runs[n].status = "completed"

SelfLogin == "bot"

\* _already_approved_by_self: the newest review of the login is APPROVED
_already_approved_by_self(reviews, self_login) ==
  LET mine == {i \in DOMAIN reviews : reviews[i][1] = self_login} IN
  mine # {} /\ reviews[CHOOSE i \in mine : \A j \in mine : j <= i][2] = "APPROVED"

\* Mutant: the clock is never restarted
StartAfter_NoReset(g, clock) == g.start

\* lines 360-363: start after the head SHA was read
StartAfter(g, clock) == IF g.head_sha # g.last_sha THEN clock ELSE g.start

\* --timeout-seconds in the model; --poll-seconds is 1
TimeoutInputs == {0, 1}
PollSeconds == 1

\* The reviews on the pull request when the waiter starts
InitialReviews ==
  {<<>>, <<<<"bot", "APPROVED">>, <<"bot", "COMMENTED">>>>,
   <<<<"bot", "APPROVED">>, <<"alice", "CHANGES_REQUESTED">>>>}

\* The pull request before the waiter starts
InitGate ==
  /\ InitDocument({InitialState("FULL", {LANE_REQUIRED_PHASE_SEQUENCE["FULL"]}, FALSE)})
  /\ ledger = EmptyLedger
  /\ evidence_dir = {}
  /\ orch = NoRun
  /\ \E reviews \in InitialReviews :
       gate = [pc |-> "none", rc |-> 0, approve |-> FALSE, merge |-> FALSE, timeout |-> 0,
               start |-> 0, last_sha |-> 0, did |-> "none", calls |-> <<>>,
               pr_state |-> "open", head_sha |-> 1,
               runs |-> [n \in RequiredChecks |-> MissingRun],
               reviews |-> reviews, merged |-> FALSE, merged_sha |-> 0,
               seen_runs |-> [n \in RequiredChecks |-> MissingRun]]

GateFrame ==
  UNCHANGED <<state_file, bak_file, writes, last, pc, proc, lock_holder, serial, observed,
              ledger, evidence_dir, orch>>

\* main, lines 330-349: the waiter starts with its arguments
GateStart ==
  /\ gate.pc = "none"
  /\ \E approve \in BOOLEAN, merge \in BOOLEAN, timeout \in TimeoutInputs :
       gate' = [gate EXCEPT !.pc = "polling", !.approve = approve, !.merge = merge,
                            !.timeout = timeout, !.start = now, !.last_sha = 0]
  /\ UNCHANGED now
  /\ GateFrame

Done(g, rc, did) == [g EXCEPT !.pc = "done", !.rc = rc, !.did = did]

\* One iteration of the loop up to its decision, lines 350-442: the waiter
\* reads the pull request and the check runs of its head commit.  api_ok: the
\* requests get through (a GhError ends the waiter with exit code 2).  When
\* the checks are green the requests that write follow in GateAct.
PollWith(api_ok) ==
  /\ gate.pc = "polling"
  /\ LET g == [gate EXCEPT !.start = StartAfter(gate, now), !.last_sha = gate.head_sha,
                           !.seen_runs = gate.runs, !.calls = <<>>]
     IN IF ~api_ok THEN gate' = Done(gate, 2, "error") /\ UNCHANGED now
        ELSE IF gate.pr_state # "open" THEN gate' = Done(gate, 2, "not_open") /\ UNCHANGED now
        ELSE IF Green(RequiredChecks, gate.runs)
          THEN /\ UNCHANGED now
               /\ gate' = IF gate.approve \/ gate.merge
                            THEN [g EXCEPT !.pc = "acting", !.did = "green"]
                            ELSE Done(g, 0, "green")
        ELSE IF AnyFailed(RequiredChecks, gate.runs)
          THEN gate' = Done(g, 1, "failed") /\ UNCHANGED now
        ELSE IF now > g.start + gate.timeout
          THEN gate' = Done(g, 2, "timeout") /\ UNCHANGED now
        ELSE /\ gate' = [g EXCEPT !.did = "wait"]
             /\ now' = now + PollSeconds
  /\ GateFrame

Poll == \E api_ok \in BOOLEAN : PollWith(api_ok)

\* The green branch, lines 369-413: the review, then the merge.  reviews_ok:
\* the request for the reviews gets through (it is made with urllib, whose
\* errors are no GhError: the waiter ends with a traceback, exit code 1);
\* merge_ok: the provider accepts the merge, which it never does for a pull
\* request that is not open any more.  The merge request names no commit:
\* the provider merges the head the pull request has by then.
GateActWith(reviews_ok, merge_ok) ==
  /\ gate.pc = "acting"
  /\ LET post == gate.approve /\ ~_already_approved_by_self(gate.reviews, SelfLogin)
         approved == [gate EXCEPT !.reviews = IF post THEN Append(@, <<SelfLogin, "APPROVED">>) ELSE @,
                                  !.calls = IF post THEN <<"approve">> ELSE <<>>]
     IN gate' = IF gate.approve /\ ~reviews_ok THEN Done(gate, 1, "crash")
                ELSE IF ~gate.merge THEN Done(approved, 0, "green")
                ELSE IF ~merge_ok \/ gate.pr_state # "open"
                  THEN Done([approved EXCEPT !.calls = Append(@, "merge")], 2, "error")
                ELSE Done([approved EXCEPT !.calls = Append(@, "merge"), !.merged = TRUE,
                                           !.merged_sha = gate.head_sha,
                                           !.pr_state = "closed"],
                          0, "green")
  /\ UNCHANGED now
  /\ GateFrame

GateAct == \E reviews_ok \in BOOLEAN, merge_ok \in BOOLEAN : GateActWith(reviews_ok, merge_ok)

\* A push to the branch of the pull request: a new head commit without check runs
Push ==
  /\ gate.pc \in {"polling", "acting"}
  /\ gate.pr_state = "open"
  /\ gate.head_sha <= MaxPushes
  /\ gate' = [gate EXCEPT !.head_sha = @ + 1, !.runs = [n \in RequiredChecks |-> MissingRun]]
  /\ UNCHANGED now
  /\ GateFrame

\* The CI provider creates a check run of the head commit or completes it
CheckProgress ==
  /\ gate.pc \in {"polling", "acting"}
  /\ \E n \in RequiredChecks, r \in {QueuedRun, SuccessRun, FailureRun, SkippedRun} :
       /\ \/ gate.runs[n] = MissingRun /\ r = QueuedRun
          \/ gate.runs[n] = QueuedRun /\ r # QueuedRun
       /\ gate' = [gate EXCEPT !.runs[n] = r]
  /\ UNCHANGED now
  /\ GateFrame

\* The pull request is closed by somebody else
ClosePr ==
  /\ gate.pc \in {"polling", "acting"}
  /\ gate.pr_state = "open"
  /\ gate' = [gate EXCEPT !.pr_state = "closed"]
  /\ UNCHANGED now
  /\ GateFrame

NextGate == GateStart \/ Poll \/ GateAct \/ Push \/ CheckProgress \/ ClosePr
SpecGate == InitGate /\ [][NextGate]_vars
\* the loop of the waiter keeps running
SpecGateLive == InitGate /\ [][NextGate]_vars /\ WF_vars(Poll) /\ WF_vars(GateAct)

----------------------------------------------------------------------------
(* The writers step by step: transition_state.py lines 149-257 and
   set_execution_lane.py lines 68-127, as processes that share the state file *)

\* The calls the concurrent processes make
ProcCalls ==
  {[tool |-> "transition", args |-> TransitionArgs(role, to, "ev.log", "plan", FALSE)] :
     role \in {"architect", "qa"}, to \in {"QA_CONTRACT", "BACKEND", "FRONTEND"}}
  \cup {[tool |-> "set_execution_lane", args |-> LaneArgs(lane, "", FALSE, FALSE)] :
          lane \in {"FULL", "fast_ui"}}

\* Mutant: the host has no fcntl, _lock_exclusive returns at once
FlockGranted_NoFcntl(holders) == TRUE

\* _lock_exclusive: fcntl.flock(f, LOCK_EX) returns once no other open file
\* description holds the lock
FlockGranted(holders) == holders = {}

\* The tool run alone on content: what it leaves in the file, and its exit code
RunAlone(content, call, clock) ==
  LET r == IF call.tool = "transition" THEN TransitionCompute(content, call.args, clock)
           ELSE SetLaneCompute(content, content, call.args)
  IN [content |-> IF r.write THEN r.rendered ELSE content, rc |-> r.rc]

\* state_path.open("r+"): a process starts with its arguments
Open(p, call) ==
  /\ pc[p] = "idle"
  /\ pc' = [pc EXCEPT ![p] = "open"]
  /\ proc' = [proc EXCEPT ![p] = [@ EXCEPT !.tool = call.tool, !.args = call.args]]
  /\ UNCHANGED <<state_file, bak_file, writes, now, last, lock_holder, serial, observed, ledger, evidence_dir, orch, gate>>

\* _lock_exclusive(f)
Lock(p) ==
  /\ pc[p] = "open"
  /\ FlockGranted(lock_holder)
  /\ lock_holder' = lock_holder \cup {p}
  /\ pc' = [pc EXCEPT ![p] = "locked"]
  /\ UNCHANGED <<state_file, bak_file, writes, now, last, proc, serial, observed, ledger, evidence_dir, orch, gate>>

\* What follows the checks: a run that will write goes on to the backup; any
\* other leaves the with block, which closes the file and drops the lock.
\* serial advances by the same call, run alone.
Decide(p, r) ==
  LET alone == RunAlone(serial, [tool |-> proc[p].tool, args |-> proc[p].args], now) IN
  /\ serial' = alone.content
  /\ IF r.write
       THEN /\ pc' = [pc EXCEPT ![p] = "backup"]
            /\ proc' = [proc EXCEPT ![p] = [@ EXCEPT !.original = state_file,
                                                     !.rendered = r.rendered,
                                                     !.serial_rc = alone.rc]]
            /\ UNCHANGED lock_holder
       ELSE /\ pc' = [pc EXCEPT ![p] = "done"]
            /\ proc' = [proc EXCEPT ![p] = [@ EXCEPT !.rc = r.rc, !.serial_rc = alone.rc]]
            /\ lock_holder' = lock_holder \ {p}

\* transition_state.py lines 151-236: f.read() and the checks
ReadAndCheck(p) ==
  /\ pc[p] = "locked"
  /\ proc[p].tool = "transition"
  /\ Decide(p, TransitionCompute(state_file, proc[p].args, now))
  /\ UNCHANGED <<state_file, bak_file, writes, now, last, observed, ledger, evidence_dir, orch, gate>>

\* set_execution_lane.py line 70: original = f.read()
ReadOriginal(p) ==
  /\ pc[p] = "locked"
  /\ proc[p].tool = "set_execution_lane"
  /\ pc' = [pc EXCEPT ![p] = "read"]
  /\ proc' = [proc EXCEPT ![p] = [@ EXCEPT !.original = state_file]]
  /\ UNCHANGED <<state_file, bak_file, writes, now, last, lock_holder, serial, observed, ledger, evidence_dir, orch, gate>>

\* set_execution_lane.py lines 71-109: _load_json(state_path) and the checks
LoadAndCheck(p) ==
  /\ pc[p] = "read"
  /\ Decide(p, SetLaneCompute(proc[p].original, state_file, proc[p].args))
  /\ UNCHANGED <<state_file, bak_file, writes, now, last, observed, ledger, evidence_dir, orch, gate>>

\* backup_path.write_text(original_text)
Backup(p) ==
  /\ pc[p] = "backup"
  /\ bak_file' = <<proc[p].original>>
  /\ pc' = [pc EXCEPT ![p] = "truncate"]
  /\ UNCHANGED <<state_file, writes, now, last, proc, lock_holder, serial, observed, ledger, evidence_dir, orch, gate>>

\* f.seek(0); f.truncate()
Truncate(p) ==
  /\ pc[p] = "truncate"
  /\ state_file' = <<>>
  /\ pc' = [pc EXCEPT ![p] = "write"]
  /\ UNCHANGED <<bak_file, writes, now, last, proc, lock_holder, serial, observed, ledger, evidence_dir, orch, gate>>

\* A write of text at offset 0 of a file that holds existing: the file is
\* empty when the writer truncated it under the lock; when another process
\* wrote in between, text replaces the first bytes and what existing has
\* beyond the length of text stays
Overwritten(text, existing) ==
  IF existing = <<>> THEN {text} ELSE {text, text \o <<"rest of the longer text">>}

\* f.write(rendered); f.flush()
Write(p) ==
  /\ pc[p] = "write"
  /\ state_file' \in Overwritten(proc[p].rendered, state_file)
  /\ writes' = writes + 1
  /\ pc' = [pc EXCEPT ![p] = "close"]
  /\ UNCHANGED <<bak_file, now, last, proc, lock_holder, serial, observed, ledger, evidence_dir, orch, gate>>

\* os.fsync, the OK line, return 0: the with block closes the file, which
\* drops the lock
Close(p) ==
  /\ pc[p] = "close"
  /\ pc' = [pc EXCEPT ![p] = "done"]
  /\ proc' = [proc EXCEPT ![p] = [@ EXCEPT !.rc = 0]]
  /\ lock_holder' = lock_holder \ {p}
  /\ UNCHANGED <<state_file, bak_file, writes, now, last, serial, observed, ledger, evidence_dir, orch, gate>>

\* validate_state.py _load_json: a reader that takes no lock
ReaderLoad ==
  /\ observed' = IF IsJson(state_file) THEN "document" ELSE "invalid_json"
  /\ observed' # observed
  /\ UNCHANGED <<state_file, bak_file, writes, now, last, pc, proc, lock_holder, serial, ledger, evidence_dir, orch, gate>>

InitConcurrent ==
  InitFrom({InitialState(lane, {LANE_REQUIRED_PHASE_SEQUENCE[lane]}, FALSE) :
              lane \in EXECUTION_LANES})

NextConcurrent ==
  \/ \E p \in Procs, call \in ProcCalls : Open(p, call)
  \/ \E p \in Procs : Lock(p)
  \/ \E p \in Procs : ReadAndCheck(p)
  \/ \E p \in Procs : ReadOriginal(p)
  \/ \E p \in Procs : LoadAndCheck(p)
  \/ \E p \in Procs : Backup(p)
  \/ \E p \in Procs : Truncate(p)
  \/ \E p \in Procs : Write(p)
  \/ \E p \in Procs : Close(p)
  \/ ReaderLoad

SpecConcurrent == InitConcurrent /\ [][NextConcurrent]_vars

\* migrate_state.py main as a process, lines 72-82: _load_json(state_path) and
\* the document it will write; no lock is taken
MigrateLoad(p) ==
  /\ pc[p] = "idle"
  /\ \E r \in {MigrateCompute(state_file, now)} :
       /\ pc' = [pc EXCEPT ![p] = IF r.write THEN "migrate_open" ELSE "done"]
       /\ proc' = [proc EXCEPT ![p] = [@ EXCEPT !.tool = "migrate", !.rc = r.rc,
                                                !.rendered = r.rendered]]
  /\ UNCHANGED <<state_file, bak_file, writes, now, last, lock_holder, serial, observed, ledger, evidence_dir, orch, gate>>

\* line 101, out_path.write_text: open(out_path, "w") truncates the file
MigrateOpenOut(p) ==
  /\ pc[p] = "migrate_open"
  /\ state_file' = <<>>
  /\ pc' = [pc EXCEPT ![p] = "migrate_write"]
  /\ UNCHANGED <<bak_file, writes, now, last, proc, lock_holder, serial, observed, ledger, evidence_dir, orch, gate>>

\* line 101, out_path.write_text: the write and the close; lines 102-103
MigrateWriteText(p) ==
  /\ pc[p] = "migrate_write"
  /\ state_file' \in Overwritten(proc[p].rendered, state_file)
  /\ writes' = writes + 1
  /\ pc' = [pc EXCEPT ![p] = "done"]
  /\ UNCHANGED <<bak_file, now, last, proc, lock_holder, serial, observed, ledger, evidence_dir, orch, gate>>

\* Legacy documents in which the architect is done and the contract tests
\* are next, and in which nothing is done
RaceStates ==
  {[InitialState(Null, {}, FALSE) EXCEPT
      !.schema_version = Null,
      !.current_phase = "ARCHITECT_DESIGN", !.next_phase = "QA_CONTRACT_TESTS",
      !.history = <<LegacyEntry("ARCHITECT_DESIGN")>>],
   [InitialState(Null, {}, FALSE) EXCEPT !.schema_version = Null]}

RaceCalls ==
  {[tool |-> "transition", args |-> TransitionArgs("qa", "BACKEND", "ev.log", "plan", FALSE)],
   [tool |-> "transition", args |-> TransitionArgs("architect", "QA_CONTRACT", "ev.log", "plan", FALSE)]}

InitMigrateRace == InitFrom(RaceStates)

NextMigrateRace ==
  \/ \E p \in Procs, call \in RaceCalls : Open(p, call)
  \/ \E p \in Procs : Lock(p)
  \/ \E p \in Procs : ReadAndCheck(p)
  \/ \E p \in Procs : Backup(p)
  \/ \E p \in Procs : Truncate(p)
  \/ \E p \in Procs : Write(p)
  \/ \E p \in Procs : Close(p)
  \/ \E p \in Procs : MigrateLoad(p)
  \/ \E p \in Procs : MigrateOpenOut(p)
  \/ \E p \in Procs : MigrateWriteText(p)

SpecMigrateRace == InitMigrateRace /\ [][NextMigrateRace]_vars

\* capture_test_output.py main as a process, lines 84-134: the blob is
\* written, the ledger is read and the block with its hmac lines is built
\* from what was read; no lock is taken.  SWARM_LOG_HMAC_KEY is "k".
CaptureReadExisting(p, raw) ==
  /\ pc[p] = "idle"
  /\ \E cap \in {CaptureCompute(ledger, evidence_dir, now, CaptureArgs(raw, 0), "k", TRUE, TRUE)} :
       /\ evidence_dir' = cap.evidence_dir
       /\ proc' = [proc EXCEPT ![p] =
                     [@ EXCEPT !.tool = "capture",
                               !.rendered = SubSeq(cap.ledger.lines, Len(ledger.lines) + 1,
                                                   Len(cap.ledger.lines))]]
  /\ pc' = [pc EXCEPT ![p] = "capture_append"]
  /\ UNCHANGED <<state_file, bak_file, writes, now, last, lock_holder, serial, observed, ledger, orch, gate>>

\* lines 136-158: out_path.open("a") and the write of the block
CaptureAppend(p) ==
  /\ pc[p] = "capture_append"
  /\ ledger' = AppendText(ledger, proc[p].rendered)
  /\ pc' = [pc EXCEPT ![p] = "done"]
  /\ UNCHANGED <<state_file, bak_file, writes, now, last, proc, lock_holder, serial, observed, evidence_dir, orch, gate>>

InitCaptureRace == InitLedger

NextCaptureRace ==
  \/ \E p \in Procs, raw \in RawOutputs : CaptureReadExisting(p, raw)
  \/ \E p \in Procs : CaptureAppend(p)

SpecCaptureRace == InitCaptureRace /\ [][NextCaptureRace]_vars

----------------------------------------------------------------------------
(* What the claims speak of *)

\* The document in the state file, and the one the last run found
Doc == state_file[1]
Pre == last.pre[1]

LaneOf(doc) == _normalize_lane(doc.execution_lane)

\* The phases of a history, canonical, as a set
HistoryPhases(doc) == {_canonicalize_phase(doc.history[i].phase) : i \in 1..Len(doc.history)}

\* The required sequence in force for a document
RequiredOf(doc) ==
  IF doc.required_phase_sequence = {} THEN LANE_REQUIRED_PHASE_SEQUENCE[LaneOf(doc)]
  ELSE LET raw == CHOOSE q \in doc.required_phase_sequence : TRUE
       IN [i \in 1..Len(raw) |-> _canonicalize_phase(raw[i])]

\* Every call of the transition engine explored, with its outcome on the
\* current state file
TransitionCalls ==
  {TransitionArgs(role, to, mode[1], note, mode[2]) :
     role \in RoleInputs, to \in ToInputs, mode \in RunModes, note \in NoteInputs}

Outcome(args) == TransitionCompute(state_file, args, now)

LastWasTransition == last.tool = "transition"
LastTransitionWrote == last.tool = "transition" /\ last.wrote

\* s is a subsequence of t
RECURSIVE IsSubsequence(_, _)
IsSubsequence(s, t) ==
  IF s = <<>> THEN TRUE
  ELSE IF t = <<>> THEN FALSE
  ELSE IF Head(s) = Head(t) THEN IsSubsequence(Tail(s), Tail(t))
  ELSE IsSubsequence(s, Tail(t))

----------------------------------------------------------------------------
(* Claims *)

\* C1: a successful, non-dry-run transition(role, to) on a state with next_phase N
\* and lane L writes current_phase = N and next_phase = to, with (N, to) in the
\* allowed transitions of L; a call whose (N, to) is not in that set is rejected.
C1_TransitionSemantics ==
  /\ LastTransitionWrote =>
       LET N == _canonicalize_phase(Pre.next_phase)
           to == _canonicalize_phase(last.args.to)
       IN /\ Doc.current_phase = N
          /\ Doc.next_phase = to
          /\ LaneOf(Pre) \in EXECUTION_LANES
          /\ <<N, to>> \in ALLOWED_TRANSITIONS_BY_LANE[LaneOf(Pre)]
  /\ \A args \in TransitionCalls :
       LET N == _canonicalize_phase(Doc.next_phase)
           to == _canonicalize_phase(args.to)
           legal == /\ LaneOf(Doc) \in EXECUTION_LANES
                    /\ <<N, to>> \in ALLOWED_TRANSITIONS_BY_LANE[LaneOf(Doc)]
       IN ~legal => Outcome(args).rc # 0 /\ ~Outcome(args).write

\* C1 witness: a transition was written in the FAST_UI lane
C1_Witness ==
  /\ LastTransitionWrote
  /\ LaneOf(Pre) = "FAST_UI"
  /\ Doc.current_phase = "ARCHITECT" /\ Doc.next_phase = "FRONTEND"

\* C2: a transition succeeds only if the normalized acting role is the role of the
\* previous next_phase; every entry the engine appends has by_role =
\* role_for_phase(entry.phase).
C2_RoleOwnsPhase ==
  /\ \A args \in TransitionCalls :
       Outcome(args).rc = 0 =>
         _normalize_role(args.role) = PHASE_TO_ROLE[_canonicalize_phase(Doc.next_phase)]
  /\ LastTransitionWrote =>
       LET e == Doc.history[Len(Doc.history)]
       IN /\ e.by_role = _normalize_role(last.args.role)
          /\ e.by_role = PHASE_TO_ROLE[_canonicalize_phase(Pre.next_phase)]
  /\ \A i \in 1..Len(Doc.history) :
       (Doc.history[i].kind = "obj" /\ Doc.history[i].lane # Absent) =>
         Doc.history[i].by_role = PHASE_TO_ROLE[_canonicalize_phase(Doc.history[i].phase)]

\* C2 witness: a transition made under a role alias was written
C2_Witness ==
  /\ LastTransitionWrote
  /\ last.args.role = "DEV"
  /\ Doc.history[Len(Doc.history)].by_role = "backend"

\* C3: a successful transition appends exactly one entry, whose phase is the previous
\* next_phase, leaves the earlier entries as they were, and the last entry's phase
\* is then current_phase.
C3_AppendOne ==
  LastTransitionWrote =>
    /\ Len(Doc.history) = Len(Pre.history) + 1
    /\ SubSeq(Doc.history, 1, Len(Pre.history)) = Pre.history
    /\ Doc.history[Len(Doc.history)].phase = _canonicalize_phase(Pre.next_phase)
    /\ Doc.history[Len(Doc.history)].phase = Doc.current_phase

\* C3 witness: a transition was appended to a history that was not empty
C3_Witness == LastTransitionWrote /\ Len(Pre.history) >= 2

\* C4: from the initial state, by successful transitions in a fixed lane: every
\* phase of the lane's required sequence that occurs in history plus
\* current_phase has all the phases before it in the sequence there too.
C4_RequiredOrder ==
  LET seq == LANE_REQUIRED_PHASE_SEQUENCE[LaneOf(Doc)]
      timeline == HistoryPhases(Doc) \cup {_canonicalize_phase(Doc.current_phase)}
  IN \A i \in 1..Len(seq) :
       seq[i] \in timeline => \A j \in 1..(i - 1) : seq[j] \in timeline

\* C4 witness: the whole required sequence of the FULL lane was run
C4_Witness ==
  /\ LaneOf(Doc) = "FULL"
  /\ Doc.next_phase = "COMPLETE"
  /\ HistoryPhases(Doc) = Range(DEFAULT_REQUIRED_PHASE_SEQUENCE)

\* C5: a transition to a phase of the required sequence is rejected whenever a
\* required phase before it is neither in history nor the phase being completed,
\* also when the edge is allowed and the role is right; the state is unchanged.
C5_SkipRejected ==
  /\ \A args \in TransitionCalls :
       LET seq == RequiredOf(Doc)
           to == _canonicalize_phase(args.to)
           completed == HistoryPhases(Doc) \cup {_canonicalize_phase(Doc.next_phase)}
           skips == /\ LaneOf(Doc) \in EXECUTION_LANES
                    /\ to \in Range(seq)
                    /\ \E i \in 1..Len(seq) :
                         /\ seq[i] \notin completed
                         /\ \E j \in (i + 1)..Len(seq) :
                              seq[j] = to /\ \A k \in 1..(j - 1) : seq[k] # to
       IN skips => Outcome(args).rc # 0 /\ ~Outcome(args).write
  /\ (LastWasTransition /\ last.err = "skip") => state_file = last.pre

\* C5 witness: on the hand-edited state (history [ARCHITECT], next BACKEND) the
\* backend's transition along the allowed edge to ANALYST_CI_GATE was rejected
\* as a skip
C5_Witness ==
  /\ LastWasTransition /\ last.err = "skip"
  /\ Doc.next_phase = "BACKEND"
  /\ HistoryPhases(Doc) = {"ARCHITECT"}

\* C6: while is_locked is true no transition succeeds, for any role and any target,
\* and the state document stays as it is.
C6_LockedRejects ==
  /\ Doc.is_locked =>
       \A args \in TransitionCalls : Outcome(args).rc # 0 /\ ~Outcome(args).write
  /\ (LastWasTransition /\ Pre.is_locked) => (last.rc # 0 /\ state_file = last.pre)

\* C6 witness: a transition was refused because the state is locked
C6_Witness == LastWasTransition /\ last.err = "locked" /\ Doc.is_locked

\* C7: a rejected transition, and a dry run, leave the state document as it was
\* and write no backup.
C7_NoPartialWrite ==
  /\ (LastWasTransition /\ (last.rc # 0 \/ last.err = "dry_run")) =>
       (state_file = last.pre /\ bak_file = last.pre_bak)
  /\ LastWasTransition => (last.wrote <=> (last.rc = 0 /\ last.err # "dry_run"))

\* C7 witness: a transition was rejected for its missing evidence file, after a
\* backup of an earlier write existed
C7_Witness ==
  /\ LastWasTransition /\ last.err = "evidence_not_found"
  /\ bak_file # <<>>

\* The processes between their decision to write and the write itself
MidWrite == {p \in Procs : pc[p] \in {"backup", "truncate", "write"}}

\* The transition processes that reported success
SucceededTransitions ==
  {p \in Procs : pc[p] = "done" /\ proc[p].tool = "transition" /\ proc[p].rc = 0}

\* C8: with advisory locking, whenever no process is between its decision and
\* its write, the state file is what the processes would have left had each run
\* alone, one after the other, in the order in which they read the file; every
\* finished process reports the exit code of that run; and once all have
\* finished, the history (empty at the start) holds exactly one entry per
\* transition that reported success.
C8_Serializable ==
  /\ MidWrite = {} => state_file = serial
  /\ \A p \in Procs : pc[p] = "done" => proc[p].rc = proc[p].serial_rc
  /\ (\A p \in Procs : pc[p] = "done") =>
       Len(Doc.history) = Cardinality(SucceededTransitions)

\* C8 witness: every process has finished, two transitions wrote, and the second
\* started from what the first had written (its backup holds that document)
C8_Witness ==
  /\ \A p \in Procs : pc[p] = "done"
  /\ writes = 2
  /\ Len(Doc.history) = 2
  /\ bak_file # <<>> /\ Len(bak_file[1][1].history) = 1

\* C9 as claimed: the state file always holds a complete document, and a reader
\* that takes no lock never reads anything else.
C9_NoTornDocument ==
  /\ IsJson(state_file)
  /\ observed # "invalid_json"

\* C11 as claimed: in every state reached from the initial state by successful
\* transitions and lane switches made without --force, a FAST_UI document has
\* neither current_phase nor next_phase in QA_CONTRACT, BACKEND, ANALYST_CI_GATE.
C11_FastUiForbidsBackend ==
  LaneOf(Doc) = "FAST_UI" =>
    /\ _canonicalize_phase(Doc.current_phase) \notin FastUiDisallowed
    /\ _canonicalize_phase(Doc.next_phase) \notin FastUiDisallowed

\* Every call of the lane switcher without --force explored, with its outcome
\* on the current state file
LaneCallsNoForce ==
  {LaneArgs(lane, mode[1], FALSE, dry_run) :
     lane \in LaneInputs, mode \in LaneModes, dry_run \in BOOLEAN}

LaneOutcome(args) == SetLaneCompute(state_file, state_file, args)

\* The architecture boundary as the claim words it
C12_Boundary(doc) ==
  /\ _canonicalize_phase(doc.current_phase) \in {"INIT", "ARCHITECT", "COMPLETE"}
  /\ _canonicalize_phase(doc.next_phase) \in {"ARCHITECT", "FRONTEND", "QA_CONTRACT"}

\* What a lane switch must leave alone
C12_Kept(before, after) ==
  /\ after.current_phase = before.current_phase
  /\ after.next_phase = before.next_phase
  /\ after.is_locked = before.is_locked
  /\ after.history = before.history

\* C12: a lane switch without --force to a known lane other than the document's
\* (known) lane exits 0 exactly when current_phase is INIT, ARCHITECT or COMPLETE
\* and next_phase is ARCHITECT, FRONTEND or QA_CONTRACT; a rejected switch leaves
\* the state file as it was; a switch that writes sets execution_lane and
\* required_phase_sequence (the lane default) in the same document and keeps
\* current_phase, next_phase, is_locked and history.
C12_LaneSwitchBoundary ==
  /\ \A args \in LaneCallsNoForce :
       LET target == _normalize_lane(args.lane)
           r == LaneOutcome(args)
       IN (target \in EXECUTION_LANES /\ LaneOf(Doc) \in EXECUTION_LANES /\ target # LaneOf(Doc)) =>
            /\ r.rc = 0 <=> C12_Boundary(Doc)
            /\ r.rc # 0 => (~r.write /\ r.rendered = state_file)
            /\ r.write =>
                 /\ r.rendered[1].execution_lane = target
                 /\ r.rendered[1].required_phase_sequence = {LANE_REQUIRED_PHASE_SEQUENCE[target]}
                 /\ C12_Kept(Doc, r.rendered[1])
  /\ (last.tool = "set_execution_lane" /\ last.rc # 0) => state_file = last.pre
  /\ (last.tool = "set_execution_lane" /\ last.wrote) =>
       /\ writes > 0
       /\ Doc.execution_lane = _normalize_lane(last.args.lane)
       /\ Doc.required_phase_sequence = {LANE_REQUIRED_PHASE_SEQUENCE[Doc.execution_lane]}
       /\ C12_Kept(Pre, Doc)

\* C12 witness: a lane switch without --force wrote the other lane after the
\* architect's transition
C12_Witness ==
  /\ last.tool = "set_execution_lane" /\ last.wrote /\ ~last.args.force
  /\ LaneOf(Pre) # LaneOf(Doc)
  /\ Len(Doc.history) = 1 /\ Doc.current_phase = "ARCHITECT"

LastWriterWrote == last.tool \in {"transition", "set_execution_lane"} /\ last.wrote

\* C13 as claimed: after every write by the transition engine or the lane
\* switcher, required_phase_sequence is the default sequence of the document's
\* lane, as a list of canonical names, unless allow_custom_sequence is true.
C13_Original ==
  LastWriterWrote =>
    \/ Doc.allow_custom_sequence
    \/ Doc.required_phase_sequence = {LANE_REQUIRED_PHASE_SEQUENCE[LaneOf(Doc)]}

\* C13 as amended: after every write by the transition engine or the lane
\* switcher, required_phase_sequence is present and, each name canonicalized,
\* is the default sequence of the document's lane, unless allow_custom_sequence
\* is true; the engine writes the lane default where the sequence was missing,
\* leaves a present sequence as it is spelled, and rejects every call on a
\* document whose canonicalized sequence differs from the lane default without
\* the flag.
C13_SequenceMatchesLane ==
  /\ LastWriterWrote =>
       /\ Doc.required_phase_sequence # {}
       /\ Doc.allow_custom_sequence \/ RequiredOf(Doc) = LANE_REQUIRED_PHASE_SEQUENCE[LaneOf(Doc)]
  /\ LastTransitionWrote =>
       Doc.required_phase_sequence =
         IF Pre.required_phase_sequence = {} THEN {LANE_REQUIRED_PHASE_SEQUENCE[LaneOf(Pre)]}
         ELSE Pre.required_phase_sequence
  /\ (/\ Doc.required_phase_sequence # {}
      /\ ~Doc.allow_custom_sequence
      /\ RequiredOf(Doc) # LANE_REQUIRED_PHASE_SEQUENCE[LaneOf(Doc)]) =>
       \A args \in TransitionCalls : Outcome(args).rc # 0 /\ ~Outcome(args).write

\* C13 witness: the engine wrote the lane default into a document that had no
\* sequence
C13_Witness ==
  /\ LastTransitionWrote
  /\ Pre.required_phase_sequence = {}
  /\ Doc.required_phase_sequence = {LANE_REQUIRED_PHASE_SEQUENCE["FAST_UI"]}

\* C14: whenever next_phase = COMPLETE is reached from the initial state by
\* successful transitions and lane switches made without --force, every phase of
\* the required sequence of the lane then active is in history.
C14_CompleteHasRequired ==
  Doc.next_phase = "COMPLETE" =>
    \A i \in 1..Len(RequiredOf(Doc)) : RequiredOf(Doc)[i] \in HistoryPhases(Doc)

\* C14 witness: a run that was switched to FAST_UI reached next_phase = COMPLETE
C14_Witness ==
  /\ Doc.next_phase = "COMPLETE"
  /\ LaneOf(Doc) = "FAST_UI" /\ Doc.lane_reason = "ui only"
  /\ Len(Doc.history) = 4

\* The orchestrator's calls of the transition engine: canonical names, the
\* captured evidence, no dry run
EngineCalls ==
  {TransitionArgs(role, to, "ev.log", "plan", FALSE) :
     role \in CanonicalRoles, to \in CANONICAL_PHASES}

\* The backward edges the claim lists, by lane
C15_FixLoops ==
  [FULL |-> {<<"ANALYST_CI_GATE", "BACKEND">>, <<"ANALYST_CI_GATE", "ARCHITECT">>,
             <<"ANALYST_FINAL", "BACKEND">>, <<"ANALYST_FINAL", "FRONTEND">>,
             <<"ANALYST_FINAL", "ARCHITECT">>},
   FAST_UI |-> {<<"QA_E2E", "FRONTEND">>, <<"FRONTEND", "ARCHITECT">>}]

\* C15: in every state reached from the initial state by successful transitions
\* in a fixed lane, a call whose role owns next_phase and whose edge is allowed
\* in the lane is not rejected by the skip check: it succeeds; so does every
\* call along a backward fix-loop edge.
C15_NoSkipOnAllowedEdge ==
  \A args \in EngineCalls :
    LET N == Doc.next_phase
        edge == <<N, args.to>>
    IN (args.role = PHASE_TO_ROLE[N] /\
        (edge \in ALLOWED_TRANSITIONS_BY_LANE[LaneOf(Doc)] \/ edge \in C15_FixLoops[LaneOf(Doc)])) =>
         (Outcome(args).err # "skip" /\ Outcome(args).rc = 0 /\ Outcome(args).write)

\* C15 witness: the fix loop ANALYST_CI_GATE -> BACKEND was taken
C15_Witness ==
  /\ LastTransitionWrote
  /\ Pre.next_phase = "ANALYST_CI_GATE" /\ Doc.next_phase = "BACKEND"
  /\ "BACKEND" \in HistoryPhases(Pre)

\* The canonical phases of a history, in order
HistoryList(doc) == [i \in 1..Len(doc.history) |-> _canonicalize_phase(doc.history[i].phase)]

\* The skip check's list of missing phases for a call on the current document
MissingFor(to) ==
  MissingRequired(RequiredOf(Doc), to, Append(HistoryList(Doc), Doc.next_phase))

\* A FULL-lane document with the default required sequence
FullDefault(doc) ==
  LaneOf(doc) = "FULL" /\ RequiredOf(doc) = DEFAULT_REQUIRED_PHASE_SEQUENCE /\ ~doc.is_locked

\* C16 as claimed: from a FULL-lane state with the default required sequence,
\* history [ARCHITECT] and next_phase = BACKEND, transition(backend,
\* ANALYST_CI_GATE) succeeds.
C16_Original ==
  (FullDefault(Doc) /\ HistoryList(Doc) = <<"ARCHITECT">> /\ Doc.next_phase = "BACKEND") =>
    Outcome(TransitionArgs("backend", "ANALYST_CI_GATE", "ev.log", "plan", FALSE)).rc = 0

\* C16 as amended: from that state transition(backend, ANALYST_CI_GATE) is itself
\* rejected as a skip that names QA_CONTRACT, and writes nothing; from a FULL-lane
\* state with history [ARCHITECT, BACKEND] and next_phase = ANALYST_CI_GATE,
\* transition(analyst, FRONTEND) is rejected as a skip that names QA_CONTRACT.
C16_SkipNamesContract ==
  /\ (FullDefault(Doc) /\ HistoryList(Doc) = <<"ARCHITECT">> /\ Doc.next_phase = "BACKEND") =>
       LET r == Outcome(TransitionArgs("backend", "ANALYST_CI_GATE", "ev.log", "plan", FALSE))
       IN /\ r.rc # 0 /\ r.err = "skip" /\ ~r.write
          /\ MissingFor("ANALYST_CI_GATE") = <<"QA_CONTRACT">>
  /\ (/\ FullDefault(Doc) /\ HistoryList(Doc) = <<"ARCHITECT", "BACKEND">>
      /\ Doc.next_phase = "ANALYST_CI_GATE") =>
       LET r == Outcome(TransitionArgs("analyst", "FRONTEND", "ev.log", "plan", FALSE))
       IN /\ r.rc # 0 /\ r.err = "skip" /\ ~r.write
          /\ MissingFor("FRONTEND") = <<"QA_CONTRACT">>
  /\ (LastWasTransition /\ last.err = "skip") => state_file = last.pre

\* C16 witness: the engine refused, as a skip, the one call that passes the role
\* and edge checks on the document with history [ARCHITECT] and next_phase
\* BACKEND
C16_Witness ==
  /\ LastWasTransition /\ last.err = "skip"
  /\ Doc = SkippedContract

\* The guard's result on the state file before the last change (base) and as
\* it is (head)
GuardResult == _validate_state_transition(last.pre, state_file)

\* C17: when the state file differs between base and head, the state-diff guard
\* accepts only if head.current_phase is base.next_phase, head.history has
\* exactly one entry more than base.history, and base.history is a verbatim
\* prefix of head.history; when the file is the same it accepts with
\* changed = false; its exit code is 0 exactly when it accepts.
C17_GuardAppendOnly ==
  /\ last.pre = state_file => (GuardResult.ok /\ ~GuardResult.changed)
  /\ last.pre # state_file =>
       /\ GuardResult.changed
       /\ GuardResult.ok =>
            /\ _canonicalize_phase(Doc.current_phase) = _canonicalize_phase(Pre.next_phase)
            /\ Len(Doc.history) = Len(Pre.history) + 1
            /\ SubSeq(Doc.history, 1, Len(Pre.history)) = Pre.history
  /\ last.tool = "state_diff_guard" =>
       /\ last.rc = 0 <=> GuardResult.ok
       /\ last.wrote <=> GuardResult.changed

\* C17 witness: the guard rejected a head whose history has as many entries as
\* the base's although the state file changed
C17_Witness ==
  /\ last.tool = "state_diff_guard" /\ last.rc = 1
  /\ state_file # last.pre
  /\ Len(Doc.history) = Len(Pre.history)

\* C18 as claimed: every pair the guard accepts with changed = true is one legal
\* transition of the engine: some transition(role, to) run on base succeeds and
\* yields head's current_phase, next_phase and the appended entry's phase and
\* by_role, and execution_lane is the same in base and head.
C18_AcceptedIsEngineTransition ==
  (GuardResult.ok /\ GuardResult.changed) =>
    /\ LaneOf(Pre) = LaneOf(Doc)
    /\ \E args \in EngineCalls :
         LET r == TransitionCompute(last.pre, args, now) IN
           /\ r.rc = 0 /\ r.write
           /\ r.rendered[1].current_phase = _canonicalize_phase(Doc.current_phase)
           /\ r.rendered[1].next_phase = _canonicalize_phase(Doc.next_phase)
           /\ LET mine == r.rendered[1].history[Len(r.rendered[1].history)]
                  theirs == Doc.history[Len(Doc.history)]
              IN mine.phase = _canonicalize_phase(theirs.phase) /\ mine.by_role = theirs.by_role

\* The policy run that has just ended, and what it reported
LastWasPolicy == last.tool = "policy_guard"
PolicyResult == PolicyCompute(last.pre, state_file, last.args)
PolicyRole == PHASE_TO_ROLE[_canonicalize_phase(PolicyState(last.pre, state_file, last.args.mode)[1].next_phase)]
ScenarioD ==
  /\ LastWasPolicy
  /\ last.args.mode = "working_tree" /\ ActorLower(last.args.actor) = "agent"
  /\ last.args.changed = {AppFile, TestFile}
  /\ last.err \in {"", "violations"}
  /\ PolicyRole = "backend"

\* C19 as claimed: the backend agent's change of {app/x.ts, tests/y.test.ts}
\* gives exactly one violation, on tests/y.test.ts, and it is reported under
\* the role deny rule
C19_Original ==
  ScenarioD => PolicyResult.violations = {<<TestFile, "role_deny">>}

\* C19: the backend agent's change of {app/x.ts, tests/y.test.ts} in
\* working-tree mode gives exactly one violation, on tests/y.test.ts, and it
\* is reported under the allowlist rule ("Path not in allowlist for role
\* 'backend'"); in every run, every changed path that matches a deny glob of
\* the role is a violation, and the rule named is never the role deny rule,
\* because an earlier rule of the evaluation order already denies the path
C19_DenyGlobReportedByAllowlist ==
  /\ ScenarioD => /\ PolicyResult.violations = {<<TestFile, "not_in_allowlist">>}
                  /\ last.rc = 1
  /\ (LastWasPolicy /\ last.err \in {"", "violations"}) =>
       /\ \A q \in last.args.changed :
            (PolicyRole \in DOMAIN ROLE_DENY_GLOBS_AGENT
               /\ _matches_any(q, ROLE_DENY_GLOBS_AGENT[PolicyRole]))
            => \E v \in PolicyResult.violations : v[1] = q
       /\ \A v \in PolicyResult.violations : v[2] # "role_deny"

C19_Witness ==
  /\ ScenarioD
  /\ last.rc = 1
  /\ <<TestFile, "not_in_allowlist">> \in PolicyResult.violations

\* tasks/logs/** and tasks/evidence/**
UnderLedgerOrEvidence(q) == Len(q) >= 3 /\ q[1] = "tasks" /\ q[2] \in {"logs", "evidence"}

\* C20: a policy run that allows its changed set (exit code 0) with a path
\* under tasks/logs/ or tasks/evidence/ in it has the actor orchestrator and
\* a role whose allowlist covers the path, in both modes and for every role;
\* with any other actor the path is a violation
C20_LedgerAndEvidenceOrchestratorOnly ==
  (LastWasPolicy /\ last.err \in {"", "violations"}) =>
    \A q \in last.args.changed :
      UnderLedgerOrEvidence(q) =>
        /\ ActorLower(last.args.actor) # "orchestrator" =>
             (last.rc = 1 /\ \E v \in PolicyResult.violations : v[1] = q)
        /\ (~\E v \in PolicyResult.violations : v[1] = q) =>
             /\ ActorLower(last.args.actor) = "orchestrator"
             /\ _matches_any(q, ROLE_ALLOW_GLOBS_AGENT[PolicyRole])

C20_Witness ==
  /\ LastWasPolicy
  /\ last.rc = 0
  /\ last.args.mode = "diff"
  /\ RawEvidence \in last.args.changed
  /\ ActorLower(last.args.actor) = "orchestrator"

\* C21: a policy run in working-tree mode by an actor other than the
\* orchestrator whose changed paths include the state file reports a
\* violation on the state file, for every role and for every value of --state
\* that names the file, the absolute path included
C21_StateEditAlwaysViolation ==
  (/\ LastWasPolicy
   /\ last.args.mode = "working_tree"
   /\ ActorLower(last.args.actor) = "agent"
   /\ StatePath \in last.args.changed
   /\ last.err \in {"", "violations"})
  => (last.rc = 1 /\ \E v \in PolicyResult.violations : v[1] = StatePath)

\* The run blocks of a ledger: where each begins, and its lines
RunStarts(lines) == {i \in DOMAIN lines : lines[i][1] = "## Run: "}
BlockEnd(lines, i) ==
  IF \E j \in RunStarts(lines) : j > i
    THEN (CHOOSE j \in RunStarts(lines) : j > i /\ \A k \in RunStarts(lines) : k > i => j <= k) - 1
    ELSE Len(lines)
Signed(lines, i) == Len(lines) >= i + HeaderLen /\ lines[i + HeaderLen][1] = "- hmac: "
StoredHmac(lines, i) == lines[i + HeaderLen][2]
StoredPrev(lines, i) == lines[i + HeaderLen + 1][2]
\* the block without its two hmac lines and, unsigned, without the empty line after it
BlockBody(lines, i) ==
  SubSeq(lines, i, i + HeaderLen - 1) \o SubSeq(lines, i + HeaderLen + 2, BlockEnd(lines, i))
PreviousRun(lines, i) == CHOOSE j \in RunStarts(lines) : j < i /\ \A k \in RunStarts(lines) : k < i => k <= j

\* C22: in a ledger whose every block was captured with the key "k", the
\* first block's prev_hmac is the empty string, every later block's
\* prev_hmac is the hmac stored in the block before it, and each hmac is
\* HMAC(key, prev_hmac + newline + block body)
C22_LedgerChain ==
  LET L == ledger.lines IN
  (\A i \in RunStarts(L) : Signed(L, i)) =>
    \A i \in RunStarts(L) :
      /\ StoredHmac(L, i) = _compute_block_hmac("k", StoredPrev(L, i), BlockBody(L, i))
      /\ StoredPrev(L, i) = IF \E j \in RunStarts(L) : j < i
                              THEN StoredHmac(L, PreviousRun(L, i)) ELSE <<>>

\* The bytes of text a are the first bytes of text b
TextPrefix(a, b) ==
  /\ IsPrefix(a.lines, b.lines)
  /\ (Len(a.lines) = Len(b.lines) /\ b.open) => a.open
CaptureStep == orch'.tool = "capture" /\ orch'.n = orch.n + 1
NumRuns(text) == Cardinality(RunStarts(text.lines))

\* C23: a capture never alters bytes already in the ledger: the ledger
\* before is a prefix of the ledger after, and a capture that succeeds
\* appends exactly one run block, which begins with "## Run: <run_id>"
C23_LedgerAppendOnly ==
  [][/\ TextPrefix(ledger, ledger')
     /\ (CaptureStep /\ orch'.rc = 0) =>
          /\ NumRuns(ledger') = NumRuns(ledger) + 1
          /\ Len(ledger'.lines) > Len(ledger.lines)
          /\ ledger'.lines[Len(ledger.lines) + 1] =
               <<"## Run: ", RunId(now, ledger'.lines[Len(ledger.lines) + 8][2])>>
     /\ (CaptureStep /\ orch'.rc # 0) => ledger' = ledger]_vars

\* Two captures were appended after a text that did not end with a newline
C23_Witness ==
  /\ orch.tool = "capture" /\ orch.rc = 0
  /\ NumRuns(ledger) = 2
  /\ ledger.lines[1] = <<"", "# CI logs">>
  /\ ledger.lines[2][1] = "## Run: "

\* C24 as claimed: the evidence directory holds at most one blob per
\* distinct content
C24_Original ==
  \A b1 \in evidence_dir, b2 \in evidence_dir : b1[2] = b2[2] => b1 = b2

\* C24: a capture never changes or removes a blob; it creates at most one
\* blob file, named by the second of the capture and the SHA-256 of the
\* content put in it, and none when the same bytes were already captured in
\* the same second; captured in another second, the same bytes get another
\* blob file
C24_OneBlobPerSecondAndContent ==
  [][/\ evidence_dir \subseteq evidence_dir'
     /\ Cardinality(evidence_dir' \ evidence_dir) <= 1
     /\ \A b \in evidence_dir' \ evidence_dir :
          /\ CaptureStep
          /\ b[1][2] = _sha256_bytes(b[2])
          /\ b[1][1] = <<"L1", now, _sha256_bytes(b[2])>>
          /\ ~\E c \in evidence_dir : c[2] = b[2] /\ c[1][1][2] = now
     /\ \A b1 \in evidence_dir', b2 \in evidence_dir' : b1[1] = b2[1] => b1 = b2]_vars

\* The same bytes were captured twice in one second: two run blocks that
\* name the same blob, the only one of the directory
C24_Witness ==
  /\ NumRuns(ledger) >= 2
  /\ Cardinality(evidence_dir) = 1
  /\ orch.tool = "capture" /\ orch.rc = 0

\* C25: the command runner returns the command's own exit code whenever
\* the capture succeeded, and the reserved capture-failure code 2 exactly
\* when the capture failed
C25_RunnerExitCode ==
  orch.tool = "run_and_capture" =>
    /\ orch.captured => orch.rc = orch.cmd_exit
    /\ orch.rc = 2 <=> ~orch.captured

\* C26: in a run of the orchestrator every step before the last one that
\* ran returned 0, the orchestrator returns the exit code of the last step
\* that ran, it returns 0 only after all steps ran, and the transition
\* engine runs only after the command runner returned 0
C26_FirstFailureAborts ==
  orch.tool = "orchestrate" =>
    LET S == orch.steps IN
    /\ \A i \in 1..(Len(S) - 1) : S[i][2] = 0
    /\ orch.rc = S[Len(S)][2]
    /\ orch.rc = 0 => S[Len(S)][1] = "transition_state"

PollStep == gate.pc = "polling" /\ (gate'.pc # "polling" \/ now' # now)
PollRead == PollStep /\ gate'.did # "error"
CompletedFailure == \E n \in RequiredChecks :
  gate.runs[n].status = "completed" /\ gate.runs[n].conclusion # "success"

\* C27: an iteration of the waiter that reads an open pull request on which
\* some required check is completed with a conclusion other than success
\* ends the waiter with exit code 1 in that iteration, without sleeping,
\* approving or merging, whatever the other required checks are
C27_FailFast ==
  [][(PollRead /\ gate.pr_state = "open" /\ CompletedFailure) =>
       /\ gate'.pc = "done" /\ gate'.rc = 1
       /\ now' = now
       /\ gate'.calls = <<>>
       /\ gate'.reviews = gate.reviews /\ gate'.merged = gate.merged]_vars

\* The waiter failed fast while one required check was skipped and the other
\* one had no check run yet
C27_Witness ==
  /\ gate.pc = "done" /\ gate.rc = 1 /\ gate.did = "failed"
  /\ \E n \in RequiredChecks : gate.runs[n] = MissingRun
  /\ \E n \in RequiredChecks : gate.runs[n] = SkippedRun

AllSucceeded(runs) == \A n \in RequiredChecks : runs[n] = SuccessRun
OwnReviews(reviews) == SelectSeq(reviews, LAMBDA r : r[1] = SelfLogin)
NewestOwnIsApproval(reviews) ==
  LET own == OwnReviews(reviews) IN own # <<>> /\ own[Len(own)][2] = "APPROVED"
EverApproved(reviews) == \E i \in DOMAIN reviews : reviews[i] = <<SelfLogin, "APPROVED">>
RequestsOf(approve, merge) ==
  (IF approve THEN <<"approve">> ELSE <<>>) \o (IF merge THEN <<"merge">> ELSE <<>>)
GateWrites == gate'.reviews # gate.reviews \/ gate'.merged # gate.merged \/ gate'.calls # <<>>
GateReturns(rc) == gate.pc # "done" /\ gate'.pc = "done" /\ gate'.rc = rc

StillWaiting ==
  /\ gate.pr_state = "open"
  /\ ~AllSucceeded(gate.runs)
  /\ ~CompletedFailure

\* C29: an iteration that reads an open pull request whose required checks
\* are neither all successful nor any failed restarts the clock when the
\* head SHA differs from the one of the iteration before, ends the waiter
\* with exit code 2 when more than timeout_seconds have passed on that
\* clock and sleeps poll_seconds otherwise; and a waiter that polls ends
C29_TimeoutPerSha ==
  /\ [][(PollRead /\ StillWaiting) =>
          LET start == IF gate.head_sha # gate.last_sha THEN now ELSE gate.start IN
          /\ gate'.start = start /\ gate'.last_sha = gate.head_sha
          /\ IF now - start > gate.timeout
               THEN gate'.pc = "done" /\ gate'.rc = 2 /\ now' = now
               ELSE gate'.pc = "polling" /\ now' = now + PollSeconds]_vars
  /\ (gate.pc = "polling" ~> gate.pc = "done")

\* The waiter timed out on the second head commit, on a clock that was
\* restarted after the waiter had started
C29_Witness ==
  /\ gate.pc = "done" /\ gate.rc = 2 /\ gate.did = "timeout"
  /\ gate.last_sha = 2
  /\ gate.start > 0
  /\ now - gate.start > gate.timeout

ValidatorRuns == last.tool # "validate" /\ last'.tool = "validate"
SignedByEngine == last.tool = "transition" /\ last.wrote /\ last.args.hmac_key = StateKey
CarriesIntegrityHmac(state) ==
  state.integrity.kind = "dict" /\ state.integrity.hmac # NoSignature

\* C30: the validator, run under the key right after a transition that
\* wrote the state file under the same key, reports neither a signature
\* mismatch nor a missing signature, wherever the document carried its
\* signature; run after an edit of another field of a document that passed
\* the check, it reports the mismatch
C30_StateHmacRoundTrip ==
  [][ValidatorRuns =>
       /\ SignedByEngine => last'.err = ""
       /\ (last.tool = "tamper" /\ IntegrityCheck(last.pre[1], StateKey) = "")
            => last'.err = "hmac_mismatch" /\ last'.rc = 1]_vars

Validated == last.tool = "validate"
\* The violations of the document in the state file, as the validator names
\* them, for the role and the key of the run
PresentViolations ==
  LET d == Doc
      seq == CHOOSE q \in d.required_phase_sequence : TRUE
      timeline == {d.history[i].phase : i \in 1..Len(d.history)} \cup {d.current_phase}
  IN (IF d.is_locked THEN {"locked"} ELSE {})
     \cup (IF d.execution_lane = "FAST_UI" /\ d.next_phase \in {"QA_CONTRACT", "BACKEND", "ANALYST_CI_GATE"}
             THEN {"fast_ui_next"} ELSE {})
     \cup (IF last.args.role # "" /\ last.args.role # PHASE_TO_ROLE[d.next_phase]
             THEN {"role_mismatch"} ELSE {})
     \cup (IF seq # LANE_REQUIRED_PHASE_SEQUENCE[d.execution_lane]
             THEN {"sequence_mismatch"} ELSE {})
     \cup (IF \E i, j \in 1..Len(seq) : i < j /\ seq[j] \in timeline /\ seq[i] \notin timeline
             THEN {"order_violated"} ELSE {})
     \cup (IF \E i \in 1..Len(d.history) : d.history[i].phase = Null
             THEN {"history_malformed"} ELSE {})
     \cup (IF last.args.hmac_key # "" /\ d.state_hmac # _compute_state_hmac(d, last.args.hmac_key)
             THEN {"hmac_mismatch"} ELSE {})

\* C31: a run of the validator returns 0 exactly when the document has no
\* violation, reports every violation the document has (locked, phase
\* forbidden in the lane, role mismatch, sequence mismatch, required order
\* violated, malformed history, HMAC mismatch), and leaves the state file
\* as it found it
C31_ValidatorReportsAll ==
  Validated =>
    /\ last.rc = 0 <=> last.errors = {}
    /\ PresentViolations \subseteq last.errors
    /\ state_file = last.pre

Migrated == last.tool = "migrate" /\ last.wrote

\* The canonical phases of the history the migrator loaded, and of the one it wrote
LegacyPhasesOf(text) ==
  [i \in 1..Len(text[1].history) |-> _canonicalize_phase(text[1].history[i].phase)]
MigratedPhases == [i \in 1..Len(Doc.history) |-> Doc.history[i].phase]

IsInserted(entry) == entry.legacy_phase = Null
InsertedAt == {k \in 1..Len(Doc.history) : IsInserted(Doc.history[k])}

RequiredIndex(phase) == IndexOf(DEFAULT_REQUIRED_PHASE_SEQUENCE, phase)
RequiredAfter(phase, present) ==
  {q \in Range(DEFAULT_REQUIRED_PHASE_SEQUENCE) :
     RequiredIndex(q) > RequiredIndex(phase) /\ q \in present}
EarliestOf(phases) ==
  CHOOSE q \in phases : \A r \in phases : RequiredIndex(q) <= RequiredIndex(r)

\* C32: the migrator keeps the legacy entries in their order and inserts one
\* entry for each required phase that is missing from the legacy history and
\* has a later required phase present, immediately before the first occurrence
\* of the earliest such phase (the entries of several missing phases with the
\* same anchor stand before it in required order); a missing phase with no
\* later required phase present gets no entry; and in the migrated history
\* every required phase that is present has all earlier required phases present
C32_InsertBeforeLaterPhase ==
  Migrated =>
    LET legacy == LegacyPhasesOf(last.pre)
        H == Doc.history
    IN /\ SelectSeq(H, LAMBDA e : ~IsInserted(e))
            = _to_history_objects(_iter_history_phases(last.pre[1].history))
       /\ \A k \in InsertedAt :
            LET p == H[k].phase
                later == RequiredAfter(p, Range(legacy))
            IN /\ p \in Range(DEFAULT_REQUIRED_PHASE_SEQUENCE) \ Range(legacy)
               /\ later # {}
               /\ k < Len(H)
               /\ H[k + 1].phase = EarliestOf(RequiredAfter(p, Range(MigratedPhases)))
               /\ IndexOf(MigratedPhases, H[k + 1].phase) = k + 1
               /\ \E a \in (k + 1)..Len(H) :
                    /\ a = IndexOf(MigratedPhases, EarliestOf(later))
                    /\ \A m \in k..(a - 1) : m \in InsertedAt
       /\ \A p \in Range(DEFAULT_REQUIRED_PHASE_SEQUENCE) \ Range(legacy) :
            IF RequiredAfter(p, Range(legacy)) # {}
              THEN Cardinality({k \in InsertedAt : H[k].phase = p}) = 1
              ELSE p \notin Range(MigratedPhases)
       /\ \A p \in Range(MigratedPhases) \cap Range(DEFAULT_REQUIRED_PHASE_SEQUENCE) :
            \A q \in Range(DEFAULT_REQUIRED_PHASE_SEQUENCE) :
              RequiredIndex(q) < RequiredIndex(p) => q \in Range(MigratedPhases)

\* A legacy history that is out of order and lacks its last phase: entries are
\* inserted before a later phase, none for the phase with nothing after it
C32_Witness ==
  /\ Migrated
  /\ LegacyPhasesOf(last.pre) = <<"FRONTEND", "BACKEND">>
  /\ MigratedPhases = <<"ANALYST_CI_GATE", "FRONTEND", "ARCHITECT", "QA_CONTRACT", "BACKEND">>
  /\ InsertedAt = {1, 3, 4}

OrchestratorRan == orch.tool = "orchestrate"
EngineInvoked == OrchestratorRan /\ Len(orch.steps) = 7
EngineMoved == EngineInvoked /\ orch.steps[7][2] = 0
NewestEntry == Doc.history[Len(Doc.history)]
\* The blob the capturer of this run names in the block it appends
OwnBlob == EvidencePath(orch.own_run_id, orch.own_run_id[3])

\* C33: a run of the orchestrator invokes the transition engine at most once
\* and only after the validator, the policy guard and both scan guards
\* returned 0 and the command's output was appended to the ledger; after a
\* successful transition the newest history entry names as evidence the blob
\* of the block this run appended, and its note carries that block's run id
\* and the command's exit code
C33_EngineAfterCapture ==
  OrchestratorRan =>
    /\ Cardinality({i \in DOMAIN orch.steps : orch.steps[i][1] = "transition_state"}) <= 1
    /\ EngineInvoked =>
         /\ \A i \in 1..4 : orch.steps[i][2] = 0
         /\ <<orch.steps[1][1], orch.steps[2][1], orch.steps[3][1], orch.steps[4][1]>>
              = <<"validate_state", "policy_guard", "no_mocks_guard", "no_placeholders_guard">>
         /\ orch.captured
    /\ EngineMoved =>
         /\ orch.parsed.evidence = OwnBlob
         /\ \E b \in evidence_dir : b[1] = OwnBlob
         /\ NewestEntry.evidence[1] = EvidenceArgument(OwnBlob, evidence_dir)
         /\ NewestEntry.note = CmdNote(orch.cmd_exit, orch.own_run_id)

\* C35: with the key configured and capture processes interleaved in any
\* way, the blocks of the ledger form one chain in file order: no two blocks
\* carry the same prev_hmac, the first block's prev_hmac is empty and each
\* later block's prev_hmac is the hmac of the block before it
C35_SingleChain ==
  LET L == ledger.lines IN
  /\ \A i \in RunStarts(L), j \in RunStarts(L) :
       StoredPrev(L, i) = StoredPrev(L, j) => i = j
  /\ \A i \in RunStarts(L) :
       StoredPrev(L, i) = IF \E j \in RunStarts(L) : j < i
                            THEN StoredHmac(L, PreviousRun(L, i)) ELSE <<>>

EngineWrote == last'.tool = "transition" /\ last'.wrote /\ state_file' # state_file

SomeTransitionSucceeds ==
  \E role \in CanonicalRoles, to \in CANONICAL_PHASES :
    TransitionCompute(state_file, TransitionArgs(role, to, "ev.log", "plan", FALSE), now).rc = 0

\* C37: in a fixed lane, a state reached from the initial state by successful
\* transitions has no role and target for which the engine succeeds exactly
\* when its next_phase is COMPLETE; its current_phase is never COMPLETE and
\* no history entry has the phase COMPLETE
C37_StuckOnlyWhenComplete ==
  /\ ~SomeTransitionSucceeds <=> Doc.next_phase = "COMPLETE"
  /\ Doc.current_phase # "COMPLETE"
  /\ \A i \in 1..Len(Doc.history) : Doc.history[i].phase # "COMPLETE"

\* A run that is complete, after the four phases of FAST_UI or after
\* MaxHistory transitions: nothing more can be done
C37_Witness ==
  /\ Doc.next_phase = "COMPLETE" /\ LastWasTransition /\ last.wrote
  /\ ~SomeTransitionSucceeds
  /\ Len(Doc.history) \in {4, MaxHistory}

\* The role strings that name the role of the last call
SameRoleAgain == {r \in RoleInputs : _normalize_role(r) = _normalize_role(last.args.role)}

\* C38: no allowed edge of either lane joins two phases owned by the same
\* role; directly after a successful transition every further transition
\* called with the same role, whatever its target, is rejected; and no two
\* consecutive history entries appended by the engine have the same by_role
C38_NoSameRoleTwice ==
  /\ \A lane \in EXECUTION_LANES : \A e \in ALLOWED_TRANSITIONS_BY_LANE[lane] :
       PHASE_TO_ROLE[e[1]] # PHASE_TO_ROLE[e[2]]
  /\ (LastWasTransition /\ last.wrote) =>
       \A role \in SameRoleAgain, to \in ToInputs :
         TransitionCompute(state_file, TransitionArgs(role, to, "ev.log", "plan", FALSE), now).rc # 0
  /\ \A i \in 1..(Len(Doc.history) - 1) :
       Doc.history[i].by_role # Doc.history[i + 1].by_role

\* The backend handed over to the CI-gate analyst, who could send the work
\* back to the backend: the backend's own second call is rejected
C38_Witness ==
  /\ LastWasTransition /\ last.wrote /\ last.args.role = "backend"
  /\ Doc.next_phase = "ANALYST_CI_GATE"
  /\ "DEV" \in SameRoleAgain
  /\ Len(Doc.history) >= 3

LaneSwitched == last.tool = "set_execution_lane" /\ last.wrote
RoleForNext == PHASE_TO_ROLE[_canonicalize_phase(Doc.next_phase)]

\* C39: after a successful lane switch made without --force from a state
\* reached by successful transitions, the validator run with the role of
\* next_phase accepts the document, and the engine succeeds for that role and
\* some target
C39_SwitchKeepsGoing ==
  LaneSwitched =>
    /\ ValidateCompute(state_file, RoleForNext).rc = 0
    /\ \E to \in CANONICAL_PHASES :
         TransitionCompute(state_file, TransitionArgs(RoleForNext, to, "ev.log", "plan", FALSE), now).rc = 0

\* Documents written by hand that the validator accepts: any current_phase
\* and next_phase, any short history of entries shaped as the engine's
HandPhases == {"ARCHITECT", "QA_CONTRACT", "FRONTEND"}

HandHistories ==
  UNION {[1..n -> {EngineEntry(phase, "FULL") : phase \in HandPhases}] :
           n \in 0..MaxAccepted}

HandStates ==
  {[InitialState(lane, {LANE_REQUIRED_PHASE_SEQUENCE[lane]}, FALSE) EXCEPT
      !.current_phase = cur, !.next_phase = nxt, !.history = h] :
     lane \in EXECUTION_LANES, cur \in CANONICAL_PHASES, nxt \in CANONICAL_PHASES,
     h \in HandHistories}

AcceptedStates == {d \in HandStates : ValidateCompute(<<d>>, "").rc = 0}

InitAccepted == InitFrom(AcceptedStates)
\* The orchestrator's calls of the engine, a few from each document
AcceptedTransition ==
  \E role \in CanonicalRoles, to \in CANONICAL_PHASES :
    Transition(TransitionArgs(role, to, "ev.log", "plan", FALSE), TRUE, MaxAccepted + 2)

NextAccepted == AcceptedTransition
SpecAccepted == InitAccepted /\ [][NextAccepted]_vars

\* The validator, run without --role, accepts the document the last run
\* started from
PreAccepted == ValidateCompute(last.pre, "").rc = 0

\* A transition without a key has written the document
KeylessTransition ==
  LastWasTransition /\ last.wrote /\ last.args.hmac_key = ""

\* The history of the document the run started from names its current_phase,
\* as in every document the engine wrote, or nothing has been run yet
CurrentRecorded ==
  Pre.current_phase \in HistoryPhases(Pre) \cup {"INIT", "COMPLETE"}

\* C40 as claimed: with no key configured, when the validator accepts the
\* document a successful transition started from, it accepts the document the
\* transition wrote, run with the role that owns the new next_phase
C40_Original ==
  (KeylessTransition /\ PreAccepted)
    => ValidateCompute(state_file, RoleForNext).rc = 0

\* C40: with no key configured, when the validator accepts the document a
\* successful transition started from and the history of that document names
\* its current_phase (or its current_phase is INIT or COMPLETE), the
\* validator accepts the document the transition wrote, run with the role
\* that owns the new next_phase
C40_EngineKeepsValid ==
  (KeylessTransition /\ PreAccepted /\ CurrentRecorded)
    => ValidateCompute(state_file, RoleForNext).rc = 0

\* a FAST_UI document written by hand with two entries, the lane's first two
\* phases, from which the engine has moved on to ANALYST_FINAL
C40_Witness ==
  /\ KeylessTransition /\ PreAccepted /\ CurrentRecorded
  /\ Doc.execution_lane = "FAST_UI"
  /\ Doc.current_phase = "QA_E2E" /\ Doc.next_phase = "ANALYST_FINAL"
  /\ Len(Doc.history) = 3

RaceDone == \A p \in Procs : pc[p] = "done"
MigratorAndEngineDone ==
  /\ RaceDone
  /\ \E p \in Procs, q \in Procs :
       /\ proc[p].tool = "migrate" /\ proc[p].rc = 0
       /\ proc[q].tool = "transition" /\ proc[q].rc = 0
       /\ \A o \in Procs \ {p, q} : proc[o].rc # 0
\* The documents that one migration and one call of the engine leave when one
\* runs after the other, in either order, on the document the race started from
OneAfterTheOther ==
  {MigrateCompute(TransitionCompute(last.pre, call.args, now).rendered, now).rendered :
     call \in {c \in RaceCalls : TransitionCompute(last.pre, c.args, now).rc = 0}}
  \cup {TransitionCompute(MigrateCompute(last.pre, now).rendered, call.args, now).rendered :
          call \in {c \in RaceCalls :
                      TransitionCompute(MigrateCompute(last.pre, now).rendered, c.args, now).rc = 0}}

\* C34: a migrator process holds the exclusive lock from its read to its
\* write, and when a migration and a transition of the same file both ended
\* with exit code 0 the file holds the document of one run after the other
C34_MigratorLocks ==
  /\ \A p \in Procs : pc[p] \in {"migrate_open", "migrate_write"} => p \in lock_holder
  /\ MigratorAndEngineDone => state_file \in OneAfterTheOther

\* C10 as claimed: over the runs of the transition engine, the lane switcher and
\* the migrator, the history before a run is a verbatim prefix of the history
\* after it.
C10_Original == IsPrefix(Pre.history, Doc.history)

\* C10 as amended: the transition engine and the lane switcher keep the history
\* before a run as a verbatim prefix; the migrator rewrites every entry as a
\* migration object and may insert entries before existing ones, keeping only
\* the canonical phases of the old entries, in their order.
C10_AppendOnlyWriters ==
  /\ last.tool \in {"transition", "set_execution_lane"} => IsPrefix(Pre.history, Doc.history)
  /\ last.tool = "migrate" =>
       IsSubsequence([i \in 1..Len(Pre.history) |-> _canonicalize_phase(Pre.history[i].phase)],
                     [i \in 1..Len(Doc.history) |-> _canonicalize_phase(Doc.history[i].phase)])

\* C10 witness: the migrator inserted an entry before an existing one
C10_Witness ==
  /\ last.tool = "migrate" /\ last.wrote
  /\ Len(Doc.history) > Len(Pre.history)
  /\ ~IsPrefix(Pre.history, Doc.history)

====
